---- MODULE Spec2Model ----
(***************************************************************************)
(* tap-quickbase: the stream execution engine of                           *)
(* tap_quickbase/streams/abstracts.py (pagination, de-duplication and the  *)
(* replication strategies with their bookmarks), the orchestration of      *)
(* tap_quickbase/sync.py over the registry of streams, and the request     *)
(* executor of tap_quickbase/client.py.                                    *)
(*                                                                         *)
(* Values.  Python's None is the integer -1 (None below).  Record ids,     *)
(* cursor values and bookmark values are naturals; a raw record is         *)
(* [id, fid] where id is record.get('id') and fid is                       *)
(* record.get('field', {}).get('id').                                      *)
(***************************************************************************)
EXTENDS Integers, Sequences, FiniteSets, TLC

None == -1

\* ------------------------------------------------------------------------
\* Bounds of the model
\* ------------------------------------------------------------------------
MaxPageSize == 1        \* page_size and page length against the unconstrained API
MaxTop == 2             \* page_size ranges over 1..MaxTop against small data sets
MaxRequests == 5        \* requests explored against the unconstrained API
MaxTotal == 2           \* metadata.totalRecords ranges over 0..MaxTotal
MaxDistinctPages == 2   \* distinct answers the unconstrained API gives per call
MaxRecords == 5         \* size of the small data sets of the well-behaved API
MaxValue == 2           \* cursor and bookmark values range over 0..MaxValue
MaxCalls == 3           \* write_bookmark calls explored in a row
MaxFeed == 2            \* records one get_records call hands to a sync
MaxRuns == 2            \* consecutive runs of one incremental sync
TicksPerSecond == 2     \* resolution of the timestamps: ticks in a second
MaxSpan == 2            \* timestamps range over MinTick..MinTick + MaxSpan
MaxTail == 3            \* passes left before the iteration limit when a long
                        \* get_records call is taken up

MaxFullFeed == 3        \* records one get_records call hands to a full-table sync

MaxSelected == 2        \* streams selected in the catalog
MaxOrchRecords == 2     \* records each get_records call yields under sync()
MaxChildRecords == 6
MaxResources == 2
MaxWidth == 2    \* records app_tables yields for the one apps record

\* ------------------------------------------------------------------------
\* Program constants
\* ------------------------------------------------------------------------
max_iterations == 10000
DEFAULT_PAGE_SIZE == 100
max_tries == 5
tap_stream_id == "test_stream"

VARIABLES
    page_size,      \* state['page_size']
    skip,           \* state['skip']
    iteration,      \* state['iteration']
    seen_ids,       \* state['seen_ids']
    dup_pages,      \* state['dup_pages']
    last_sig,       \* state['last_sig']
    gen,            \* position of the get_records generator
    api,            \* the upstream API the client talks to
    requests,       \* the pagination_params of every request issued, in order
    pages,          \* the raw record list extracted from every response
    yielded,        \* the records yielded by the generator, in order
    log             \* levels of the messages logged when the loop ended

pvars == <<page_size, skip, iteration, seen_ids, dup_pages, last_sig, gen,
           api, requests, pages, yielded, log>>

VARIABLES
    config,         \* client.config and the stream's catalog entry
    state,          \* the singer state: bookmarks[stream, key]
    out,            \* the messages written to the output, in order
    syncpc,         \* position of the running sync call
    feed,           \* what get_records has still to yield to that call
    runs,           \* per completed or running sync call: what it read and
                    \* the records it called sync_child_streams for
    calls,          \* the last write_bookmark call made on its own, and their number
    bookmark_date,              \* IncrementalStream.sync locals
    current_max_bookmark_date,
    params,                     \* self.params["updated_since"]
    last_bookmark_dt,           \* PseudoIncrementalStream.sync locals
    max_updated_str,
    max_updated_dt,
    counter                     \* metrics.record_counter

svars == <<config, state, out, syncpc, feed, runs, calls, bookmark_date,
           current_max_bookmark_date, params, last_bookmark_dt,
           max_updated_str, max_updated_dt, counter>>

VARIABLES
    STREAMS,            \* the registry tap_quickbase.streams.STREAMS
    selection,          \* catalog.get_selected_streams(state), in catalog order
    upstream,           \* what get_records yields for each stream
    streams_to_sync,    \* sync(): the work list
    index,              \* sync(): position in the work list
    child_to_sync,      \* per stream instance: the attached children
    stack,              \* the running sync calls, innermost last
    opc,                \* position of sync()
    currently_syncing,  \* state['currently_syncing']
    failed,             \* a request of this run has raised
    journal             \* what the run did, in order: messages and calls

ovars == <<STREAMS, selection, upstream, streams_to_sync, index,
           child_to_sync, stack, opc, currently_syncing, failed, journal>>

VARIABLES
    tried,          \* what each attempt of the running __make_request got
    sleeps,         \* backoff sleeps taken between the attempts
    outcome         \* how the __make_request call ended

rvars == <<tried, sleeps, outcome>>

vars == <<pvars, svars, ovars, rvars>>

\* ------------------------------------------------------------------------
\* Raw records
\* ------------------------------------------------------------------------
Rec(i, f) == [id |-> i, fid |-> f]

\* the records the unconstrained API answers with: an identity, another one
\* carried by the nested field only, a falsy id, and no identity at all
RawRecords == {Rec(1, None), Rec(None, 2), Rec(0, None), Rec(None, None)}

\* truth value of a Python object in `x or y`
Truthy(x) == x # None /\ x # 0

\* record.get('id') or record.get('field', {}).get('id')
record_id(record) == IF Truthy(record.id) THEN record.id ELSE record.fid

NoSig == [kind |-> "none", first |-> None, last |-> None, len |-> 0,
          content |-> <<>>]

\* hash(json.dumps(raw_records, sort_keys=True)) is modelled by the dumped
\* content itself (a collision-free hash)
_create_page_signature(raw_records) ==
    IF raw_records = <<>> THEN NoSig
    ELSE LET first_id == record_id(raw_records[1])
             last_id == record_id(raw_records[Len(raw_records)])
         IN  IF first_id # None /\ last_id # None
             THEN [kind |-> "ids", first |-> first_id, last |-> last_id,
                   len |-> Len(raw_records), content |-> <<>>]
             ELSE [kind |-> "hash", first |-> None, last |-> None, len |-> 0,
                   content |-> raw_records]

\* mutant: a page with another signature leaves the counter as it is
_check_duplicate_page_no_reset(page_signature, last_signature, dup_count) ==
    IF page_signature = last_signature
    THEN LET new_dup_count == dup_count + 1
         IN  IF new_dup_count >= 2
             THEN [should_break |-> TRUE, dup |-> new_dup_count]
             ELSE [should_break |-> FALSE, dup |-> new_dup_count]
    ELSE [should_break |-> FALSE, dup |-> dup_count]

\* mutant: the stop waits for a third repeat
_check_duplicate_page_late(page_signature, last_signature, dup_count) ==
    IF page_signature = last_signature
    THEN LET new_dup_count == dup_count + 1
         IN  IF new_dup_count >= 3
             THEN [should_break |-> TRUE, dup |-> new_dup_count]
             ELSE [should_break |-> FALSE, dup |-> new_dup_count]
    ELSE [should_break |-> FALSE, dup |-> 0]

_check_duplicate_page(page_signature, last_signature, dup_count) ==
    IF page_signature = last_signature
    THEN LET new_dup_count == dup_count + 1
         IN  IF new_dup_count >= 2
             THEN [should_break |-> TRUE, dup |-> new_dup_count]
             ELSE [should_break |-> FALSE, dup |-> new_dup_count]
    ELSE [should_break |-> FALSE, dup |-> 0]

\* mutant: a missing identity is de-duplicated like any other
_process_records_with_dedup_strict(raw_records, seen) ==
    LET rid(i) == record_id(raw_records[i])
        record_key(i) == <<tap_stream_id, rid(i)>>
        Yields(i) == /\ record_key(i) \notin seen
                     /\ \A j \in 1..(i - 1) : rid(j) # rid(i)
        kept == SelectSeq([i \in 1..Len(raw_records) |-> i], Yields)
    IN  [out |-> [k \in 1..Len(kept) |-> raw_records[kept[k]]],
         seen |-> seen \cup {record_key(i) : i \in 1..Len(raw_records)}]

\* mutant: the records of a page are yielded last first
_process_records_with_dedup_reversed(raw_records, seen) ==
    LET rid(i) == record_id(raw_records[i])
        record_key(i) == <<tap_stream_id, rid(i)>>
        Yields(i) == \/ rid(i) = None
                     \/ /\ record_key(i) \notin seen
                        /\ \A j \in 1..(i - 1) : rid(j) # rid(i)
        kept == SelectSeq([i \in 1..Len(raw_records) |-> i], Yields)
    IN  [out |-> [k \in 1..Len(kept) |->
                     raw_records[kept[Len(kept) + 1 - k]]],
         seen |-> seen \cup {record_key(i) :
                             i \in {j \in 1..Len(raw_records) : rid(j) # None}}]

\* the generator run to exhaustion over one page: the records it yields and
\* the set it leaves in seen_ids.  The for loop skips record i exactly when
\* its record_id is not None and its key is in seen_ids by then, that is in
\* seen_ids at entry or added for an earlier record of the page.
_process_records_with_dedup(raw_records, seen) ==
    LET rid(i) == record_id(raw_records[i])
        record_key(i) == <<tap_stream_id, rid(i)>>
        Yields(i) == \/ rid(i) = None
                     \/ /\ record_key(i) \notin seen
                        /\ \A j \in 1..(i - 1) : rid(j) # rid(i)
        kept == SelectSeq([i \in 1..Len(raw_records) |-> i], Yields)
    IN  [out |-> [k \in 1..Len(kept) |-> raw_records[kept[k]]],
         seen |-> seen \cup {record_key(i) :
                             i \in {j \in 1..Len(raw_records) : rid(j) # None}}]

\* mutant: the metadata is consulted before the length of the page
_should_continue_pagination_total_first(num_records, psize, response, sk) ==
    IF response.total # None
    THEN LET new_skip == sk + num_records
         IN  IF new_skip >= response.total
             THEN [cont |-> FALSE, skip |-> new_skip]
             ELSE [cont |-> TRUE, skip |-> new_skip]
    ELSE IF num_records < psize THEN [cont |-> FALSE, skip |-> sk]
    ELSE [cont |-> TRUE, skip |-> sk + num_records]

\* mutant: without metadata the offset is not advanced
_should_continue_pagination_same_skip(num_records, psize, response, sk) ==
    IF num_records < psize THEN [cont |-> FALSE, skip |-> sk]
    ELSE IF response.total # None
         THEN LET new_skip == sk + num_records
              IN  IF new_skip >= response.total
                  THEN [cont |-> FALSE, skip |-> new_skip]
                  ELSE [cont |-> TRUE, skip |-> new_skip]
         ELSE [cont |-> TRUE, skip |-> sk]

\* mutant: the total is compared with > instead of >=
_should_continue_pagination_past_total(num_records, psize, response, sk) ==
    IF num_records < psize THEN [cont |-> FALSE, skip |-> sk]
    ELSE IF response.total # None
         THEN LET new_skip == sk + num_records
              IN  IF new_skip > response.total
                  THEN [cont |-> FALSE, skip |-> new_skip]
                  ELSE [cont |-> TRUE, skip |-> new_skip]
         ELSE [cont |-> TRUE, skip |-> sk + num_records]

\* a response is [haskey, data, total]: haskey says the data_key entry is
\* there, total is metadata.totalRecords (None: no "metadata" entry)
_should_continue_pagination(num_records, psize, response, sk) ==
    IF num_records < psize THEN [cont |-> FALSE, skip |-> sk]
    ELSE IF response.total # None
         THEN LET new_skip == sk + num_records
              IN  IF new_skip >= response.total
                  THEN [cont |-> FALSE, skip |-> new_skip]
                  ELSE [cont |-> TRUE, skip |-> new_skip]
         ELSE [cont |-> TRUE, skip |-> sk + num_records]

\* response.get(self.data_key, []) for a stream that declares a data_key
_extract_records(response) ==
    IF response.haskey THEN response.data ELSE <<>>

\* [response] if response else [], for a stream without data_key whose
\* response is one object: resource.empty says the object is {}
_extract_records_of_object(resource) ==
    IF resource.empty THEN <<>> ELSE <<resource.obj>>

\* self.client.config.get("page_size", DEFAULT_PAGE_SIZE); conf is the
\* entry of the config, None when there is none
configured_page_size(conf) ==
    IF conf = None THEN DEFAULT_PAGE_SIZE ELSE conf

\* self.params: empty, or the updated_since entry update_params has put
\* there (None: no entry)
self_params == [updated_since |-> params]

\* mutant: the request carries skip and top only
pagination_params_bare(base, sk, top) ==
    [updated_since |-> None, skip |-> sk, top |-> top]

\* pagination_params = self.params.copy()
\* pagination_params.update({"skip": state['skip'], "top": state['page_size']})
pagination_params(base, sk, top) ==
    [updated_since |-> base.updated_since, skip |-> sk, top |-> top]

\* mutant: the limit is tested with <=
loop_condition_off_by_one(it) == it <= max_iterations

\* while state['iteration'] < max_iterations
loop_condition(it) == it < max_iterations

\* if state['iteration'] >= max_iterations, after the loop
hit_max_iterations(it) == it >= max_iterations

\* ------------------------------------------------------------------------
\* get_records: one pass of the while loop, from the request to the break or
\* to the next evaluation of the loop condition, and the logging after the
\* loop when the generator returns
\* ------------------------------------------------------------------------
GetRecordsPass(response) ==
    /\ gen = "running"
    /\ loop_condition(iteration)
    /\ LET it == iteration + 1
           raw_records == _extract_records(response)
           num_records == Len(raw_records)
           page_sig == _create_page_signature(raw_records)
           chk == _check_duplicate_page(page_sig, last_sig, dup_pages)
           ded == _process_records_with_dedup(raw_records, seen_ids)
           new_count == Len(ded.out)
           sc == _should_continue_pagination(num_records, page_size,
                                             response, skip)
           Returned(levels) ==
               /\ gen' = "returned"
               /\ log' = levels \cup (IF hit_max_iterations(it)
                                      THEN {"error"} ELSE {})
       IN  /\ iteration' = it
           /\ requests' = Append(requests,
                                 pagination_params(self_params, skip,
                                                   page_size))
           /\ pages' = Append(pages, raw_records)
           /\ UNCHANGED <<page_size, api>>
           /\ IF num_records = 0
              THEN /\ Returned({"info"})
                   /\ UNCHANGED <<skip, seen_ids, dup_pages, last_sig, yielded>>
              ELSE IF chk.should_break
              THEN /\ Returned({"warning"})
                   /\ dup_pages' = chk.dup
                   /\ UNCHANGED <<skip, seen_ids, last_sig, yielded>>
              ELSE /\ dup_pages' = chk.dup
                   /\ last_sig' = page_sig
                   /\ seen_ids' = ded.seen
                   /\ yielded' = yielded \o ded.out
                   /\ IF new_count = 0
                      THEN /\ Returned({"info"})
                           /\ UNCHANGED skip
                      ELSE /\ skip' = sc.skip
                           /\ IF ~sc.cont
                              THEN Returned(IF num_records < page_size
                                            THEN {"info"} ELSE
                                            IF response.total # None
                                            THEN {"info"} ELSE {})
                              ELSE IF ~loop_condition(it)
                              THEN Returned({})
                              ELSE UNCHANGED <<gen, log>>

\* state = {...} at the top of get_records
GetRecordsInit(psize) ==
    /\ page_size = psize
    /\ skip = 0
    /\ iteration = 0
    /\ seen_ids = {}
    /\ dup_pages = 0
    /\ last_sig = NoSig
    /\ gen = "running"
    /\ requests = <<>>
    /\ pages = <<>>
    /\ yielded = <<>>
    /\ log = {}

\* ------------------------------------------------------------------------
\* The upstream API
\* ------------------------------------------------------------------------
Range(s) == {s[i] : i \in 1..Len(s)}

RECURSIVE SeqsUpTo(_, _)
SeqsUpTo(S, n) ==
    IF n = 0 THEN {<<>>}
    ELSE LET shorter == SeqsUpTo(S, n - 1)
         IN  shorter \cup {Append(s, x) : s \in shorter, x \in S}

RECURSIVE SubsetsUpTo(_, _)
SubsetsUpTo(S, k) ==
    IF k = 0 THEN {{}}
    ELSE LET smaller == SubsetsUpTo(S, k - 1)
         IN  smaller \cup {t \cup {x} : t \in smaller, x \in S}

\* an API that answers anything, whatever skip and top say: every answer of
\* one call is one of a few bodies (a page of raw records under the data
\* key, or a body without that key), with the same metadata on each
AnyBodies ==
    [haskey : {TRUE}, data : SeqsUpTo(RawRecords, MaxPageSize)]
        \cup {[haskey |-> FALSE, data |-> <<>>]}

AnyApis ==
    [mode : {"any"}, pool : SubsetsUpTo(AnyBodies, MaxDistinctPages) \ {{}},
     total : {None} \cup 0..MaxTotal, n : {0}, top : {0}]

ApiAnswers ==
    /\ api.mode = "any"
    /\ iteration < MaxRequests
    /\ \E body \in api.pool :
           GetRecordsPass([haskey |-> body.haskey, data |-> body.data,
                           total |-> api.total])

\* an API that answers anything with full pages of several records, which
\* may repeat a record within a page and across pages
WideRecords == {Rec(1, None), Rec(2, None), Rec(None, None)}

WideBodies ==
    [haskey : {TRUE},
     data : SeqsUpTo(WideRecords, MaxWidth)
                \ SeqsUpTo(WideRecords, MaxWidth - 1)]

WideApis ==
    [mode : {"any"}, pool : SubsetsUpTo(WideBodies, MaxDistinctPages) \ {{}},
     total : {None}, n : {0}, top : {MaxWidth}]

\* an API that answers anything with pages of any length up to MaxWidth,
\* shorter and longer than the page size asked for; api.top holds the
\* page_size entry of the config (None: no entry); it sends no metadata, or
\* a totalRecords that no call of the model gets to
ParamRecords == {Rec(1, None), Rec(None, None)}

LargeTotal == 1000

ParamBodies == [haskey : {TRUE}, data : SeqsUpTo(ParamRecords, MaxWidth)]

ParamApis ==
    [mode : {"any"}, pool : SubsetsUpTo(ParamBodies, MaxDistinctPages) \ {{}},
     total : {None, LargeTotal}, n : {0}, top : {None} \cup 1..MaxWidth]

\* an API that honours skip and top over a data set of n records with the
\* distinct ids 0..n-1, and reports totalRecords = n when it sends metadata
Dataset(n) == [i \in 1..n |-> Rec(i - 1, None)]

HonourBody(n, sk, top) ==
    LET cnt == IF sk >= n THEN 0 ELSE IF n - sk < top THEN n - sk ELSE top
    IN  [i \in 1..cnt |-> Rec(sk + i - 1, None)]

\* an API that ignores skip and top and answers forever, alternating between
\* two one-record pages whose records carry no identity
ForeverBody(k) ==
    IF k % 2 = 1 THEN <<Rec(None, None)>> ELSE <<Rec(0, None)>>

\* (page_size, n) of the data sets served by the API that honours skip/top:
\* the small ones and those of the documented scenarios and of the unit tests
HonourCases ==
    ((1..MaxTop) \X (0..MaxRecords))
        \cup {<<50, 130>>, <<50, 150>>, <<100, 100>>, <<200, 50>>, <<75, 200>>}

\* data sets that end at the iteration limit and one record after it
LimitCases == {<<1, max_iterations>>, <<1, max_iterations + 1>>}

HonourApis(cases) ==
    {[mode |-> "honour", pool |-> {}, total |-> IF m THEN c[2] ELSE None,
      n |-> c[2], top |-> c[1]] : c \in cases, m \in BOOLEAN}

ForeverApis ==
    {[mode |-> "forever", pool |-> {}, total |-> None, n |-> 0, top |-> 1]}

ApiHonours ==
    /\ api.mode = "honour"
    /\ GetRecordsPass([haskey |-> TRUE,
                       data |-> HonourBody(api.n, skip, page_size),
                       total |-> api.total])

ApiAnswersForever ==
    /\ api.mode = "forever"
    /\ GetRecordsPass([haskey |-> TRUE, data |-> ForeverBody(iteration + 1),
                       total |-> api.total])

\* a single-resource endpoint (tables, get_fields, get_field_usage: the path
\* names one object): every request of a call is answered with that object,
\* whatever skip and top say, without a metadata entry.  The stream is a
\* child: get_records is called once per parent record, api.pool lists the
\* objects of the parent records and api.n is the one being read.
Resources ==
    [empty : {FALSE}, obj : RawRecords]
        \cup {[empty |-> TRUE, obj |-> Rec(None, None)]}

SingleApis ==
    [mode : {"single"}, pool : SeqsUpTo(Resources, MaxResources) \ {<<>>},
     total : {None}, n : {1}, top : {None} \cup 1..MaxTop]

ApiServesResource ==
    /\ api.mode = "single"
    /\ GetRecordsPass([haskey |-> TRUE,
                       data |-> _extract_records_of_object(api.pool[api.n]),
                       total |-> None])

\* the generator of the call has returned and the stream is synced for the
\* next parent record: get_records is called again
GetRecordsAgain ==
    /\ api.mode = "single"
    /\ gen = "returned"
    /\ api.n < Len(api.pool)
    /\ api' = [api EXCEPT !.n = api.n + 1]
    /\ page_size' = configured_page_size(api.top)
    /\ skip' = 0
    /\ iteration' = 0
    /\ seen_ids' = {}
    /\ dup_pages' = 0
    /\ last_sig' = NoSig
    /\ gen' = "running"
    /\ requests' = <<>>
    /\ pages' = <<>>
    /\ yielded' = <<>>
    /\ log' = {}

\* ------------------------------------------------------------------------
\* The bookmark store (singer.get_bookmark / singer.write_bookmark)
\* ------------------------------------------------------------------------
IncStream == "stream_1"
PseudoStream == "pseudo_stream"
FullStream == "full_stream"
bookmark_field == "updated"

\* ParentBaseStream: bookmark_key = f"{self.tap_stream_id}_{self.replication_keys[0]}"
\* of the parent IncStream with the replication key updated_at
bookmark_key == "stream_1_updated_at"

BmStreams == {IncStream, "stream_2", "stream_3", PseudoStream, FullStream}
BmKeys == {"updated_at", "other", bookmark_field, bookmark_key}

\* a state file without bookmarks; an absent bookmark reads as None
EmptyState == [bookmarks |-> [p \in BmStreams \X BmKeys |-> None]]

\* state.get('bookmarks', {}).get(tap_stream_id, {}).get(key, default)
singer_get_bookmark(st, stream, key, default) ==
    IF st.bookmarks[<<stream, key>>] = None THEN default
    ELSE st.bookmarks[<<stream, key>>]

\* state['bookmarks'][tap_stream_id][key] = val
singer_write_bookmark(st, stream, key, val) ==
    [st EXCEPT !.bookmarks[<<stream, key>>] = val]

\* the builtin max(a, b)
py_max(a, b) == IF b > a THEN b ELSE a

\* ------------------------------------------------------------------------
\* IncrementalStream.  A key argument of "" stands for key=None.
\* ------------------------------------------------------------------------
get_bookmark(st, stream, key) ==
    singer_get_bookmark(st, stream,
                        IF key # "" THEN key ELSE config.replication_keys[1],
                        config.start_date)

\* mutant: the value is stored without taking the maximum
write_bookmark_overwrite(st, stream, key, value) ==
    IF ~(key # "" \/ config.replication_keys # <<>>) THEN st
    ELSE LET k == IF key # "" THEN key ELSE config.replication_keys[1]
         IN  singer_write_bookmark(st, stream, k, value)

write_bookmark(st, stream, key, value) ==
    IF ~(key # "" \/ config.replication_keys # <<>>) THEN st
    ELSE LET k == IF key # "" THEN key ELSE config.replication_keys[1]
             current_bookmark ==
                 singer_get_bookmark(st, stream, k, config.start_date)
         IN  singer_write_bookmark(st, stream, k,
                                   py_max(current_bookmark, value))

\* mutant: the local filter lets every record through
passes_bookmark_always(record_bookmark, bm) == record_bookmark >= 0

\* if record_bookmark >= bookmark_date
passes_bookmark(record_bookmark, bm) == record_bookmark >= bm

RecordMsg(stream, value) ==
    [type |-> "RECORD", stream |-> stream, value |-> value, run |-> Len(runs)]

StateMsg(st) ==
    [type |-> "STATE", stream |-> "", value |-> st, run |-> Len(runs)]

NewRun(bm, f) == [bookmark |-> bm, input |-> f, fed |-> <<>>, final |-> None,
                  done |-> FALSE, children |-> <<>>]

\* a write_bookmark call made on its own
WriteBookmark(stream, key, value) ==
    /\ syncpc = "idle"
    /\ calls.n < MaxCalls
    /\ state' = write_bookmark(state, stream, key, value)
    /\ calls' = [n |-> calls.n + 1, stream |-> stream, key |-> key,
                 value |-> value]
    /\ UNCHANGED <<config, out, syncpc, feed, runs, bookmark_date,
                   current_max_bookmark_date, params, last_bookmark_dt,
                   max_updated_str, max_updated_dt, counter>>

\* IncrementalStream.sync up to the for loop; f is what get_records will
\* yield, each record standing for the value of its replication key after
\* modify_object and transform.  A later run reads the same upstream data as
\* the first.
IncSyncStart(f) ==
    /\ syncpc \in {"idle", "done"}
    /\ Len(runs) < MaxRuns
    /\ runs # <<>> => f = runs[1].input
    /\ LET bm == get_bookmark(state, IncStream, "")
       IN  /\ bookmark_date' = bm
           /\ current_max_bookmark_date' = bm
           /\ params' = bm
           /\ runs' = Append(runs, NewRun(bm, f))
    /\ feed' = f
    /\ counter' = 0
    /\ syncpc' = "loop"
    /\ UNCHANGED <<config, state, out, calls, last_bookmark_dt,
                   max_updated_str, max_updated_dt>>

\* one pass of the for loop; the run notes in children the records
\* sync_child_streams is called for
IncSyncRecord ==
    /\ syncpc = "loop"
    /\ feed # <<>>
    /\ LET record_bookmark == Head(feed)
       IN  /\ IF passes_bookmark(record_bookmark, bookmark_date)
              THEN /\ IF config.selected
                      THEN /\ out' = Append(out, RecordMsg(IncStream,
                                                          record_bookmark))
                           /\ counter' = counter + 1
                      ELSE UNCHANGED <<out, counter>>
                   /\ current_max_bookmark_date' =
                          py_max(current_max_bookmark_date, record_bookmark)
                   /\ runs' = [runs EXCEPT
                                  ![Len(runs)].fed = Append(@, record_bookmark),
                                  ![Len(runs)].children =
                                      Append(@, record_bookmark)]
              ELSE /\ UNCHANGED <<out, counter, current_max_bookmark_date>>
                   /\ runs' = [runs EXCEPT
                                  ![Len(runs)].fed = Append(@, record_bookmark)]
    /\ feed' = Tail(feed)
    /\ UNCHANGED <<config, state, syncpc, calls, bookmark_date, params,
                   last_bookmark_dt, max_updated_str, max_updated_dt>>

\* the generator is exhausted: the bookmark is written and sync returns
IncSyncFinish ==
    /\ syncpc = "loop"
    /\ feed = <<>>
    /\ state' = write_bookmark(state, IncStream, "", current_max_bookmark_date)
    /\ runs' = [runs EXCEPT ![Len(runs)].final =
                   state'.bookmarks[<<IncStream, config.replication_keys[1]>>],
                   ![Len(runs)].done = TRUE]
    /\ syncpc' = "done"
    /\ UNCHANGED <<config, out, feed, calls, bookmark_date,
                   current_max_bookmark_date, params, last_bookmark_dt,
                   max_updated_str, max_updated_dt, counter>>

\* ------------------------------------------------------------------------
\* PseudoIncrementalStream.  A timestamp string is a natural: EmptyStr is
\* "", BadStr a string strptime_to_utc rejects, TsStr(t) the ISO string of
\* the instant t, counted in ticks.
\* ------------------------------------------------------------------------
EmptyStr == 0
BadStr == 1
TsStr(t) == t + 2

MinTick == TicksPerSecond
Instants == MinTick..(MinTick + MaxSpan)
TsStrings == {TsStr(t) : t \in Instants}

\* config.get("start_date", "1970-01-01T00:00:00Z"): the earliest instant
EpochStr == TsStr(MinTick)

\* timedelta(seconds=1)
one_second == TicksPerSecond

\* mutant: a string that is no timestamp parses as the latest instant
_parse_datetime_lenient(dt_str) ==
    IF dt_str = None \/ dt_str = EmptyStr THEN None
    ELSE IF dt_str = BadStr THEN MinTick + MaxSpan
    ELSE dt_str - 2

_parse_datetime(dt_str) ==
    IF dt_str = None \/ dt_str = EmptyStr THEN None
    ELSE IF dt_str = BadStr THEN None
    ELSE dt_str - 2

\* `if x:` on a string or None
NonEmpty(x) == x # None /\ x # EmptyStr

\* mutant: the second is not subtracted
_get_bookmark_exact(st) ==
    LET bookmark_str == singer_get_bookmark(st, PseudoStream, bookmark_field,
                                            None)
    IN  IF ~NonEmpty(bookmark_str)
        THEN _parse_datetime(IF config.start_date = None THEN EpochStr
                             ELSE config.start_date)
        ELSE _parse_datetime(bookmark_str)

_get_bookmark(st) ==
    LET bookmark_str == singer_get_bookmark(st, PseudoStream, bookmark_field,
                                            None)
        bookmark_dt ==
            IF ~NonEmpty(bookmark_str)
            THEN _parse_datetime(IF config.start_date = None THEN EpochStr
                                 ELSE config.start_date)
            ELSE _parse_datetime(bookmark_str)
    IN  IF bookmark_dt # None THEN bookmark_dt - one_second ELSE bookmark_dt

\* mutant: an equal value replaces the bookmark
not_newer_strict(new_dt, current_dt) == new_dt < current_dt

\* new_dt <= current_dt: the new value does not replace the bookmark
not_newer(new_dt, current_dt) == new_dt <= current_dt

\* the state it returns, and whether it called write_state
_write_bookmark(st, value) ==
    IF ~NonEmpty(value) THEN [state |-> st, wrote |-> FALSE]
    ELSE LET current_bookmark ==
                 singer_get_bookmark(st, PseudoStream, bookmark_field, None)
             current_dt == _parse_datetime(current_bookmark)
             new_dt == _parse_datetime(value)
         IN  IF /\ NonEmpty(current_bookmark)
                /\ new_dt # None /\ current_dt # None
                /\ not_newer(new_dt, current_dt)
             THEN [state |-> st, wrote |-> FALSE]
             ELSE [state |-> singer_write_bookmark(st, PseudoStream,
                                                   bookmark_field, value),
                   wrote |-> TRUE]

\* mutant: a record at the threshold passes
filtered_out_strict(record_updated_dt, last_dt) ==
    last_dt # None /\ record_updated_dt < last_dt

\* if last_bookmark_dt and record_updated_dt <= last_bookmark_dt: continue
filtered_out(record_updated_dt, last_dt) ==
    last_dt # None /\ record_updated_dt <= last_dt

\* PseudoIncrementalStream.sync up to the for loop; f is what get_records
\* will yield, each record standing for its record.get("updated").  A later
\* run reads the same upstream data as the first.
PseudoSyncStart(f) ==
    /\ syncpc \in {"idle", "done"}
    /\ Len(runs) < MaxRuns
    /\ runs # <<>> => f = runs[1].input
    /\ LET dt == _get_bookmark(state)
       IN  /\ last_bookmark_dt' = dt
           /\ max_updated_dt' = dt
           /\ runs' = Append(runs,
                  NewRun(singer_get_bookmark(state, PseudoStream,
                                             bookmark_field, None), f))
    /\ max_updated_str' = None
    /\ feed' = f
    /\ counter' = 0
    /\ syncpc' = "loop"
    /\ UNCHANGED <<config, state, out, calls, bookmark_date,
                   current_max_bookmark_date, params>>

\* one pass of the for loop; the run notes in children the records
\* sync_child_streams is called for
PseudoSyncRecord ==
    /\ syncpc = "loop"
    /\ feed # <<>>
    /\ LET record_updated_str == Head(feed)
           record_updated_dt == _parse_datetime(record_updated_str)
       IN  /\ IF \/ ~NonEmpty(record_updated_str)
                 \/ record_updated_dt = None
                 \/ filtered_out(record_updated_dt, last_bookmark_dt)
              THEN /\ UNCHANGED <<out, counter, max_updated_dt,
                                   max_updated_str>>
                   /\ runs' = [runs EXCEPT ![Len(runs)].fed =
                                               Append(@, record_updated_str)]
              ELSE /\ IF config.selected
                      THEN /\ out' = Append(out, RecordMsg(PseudoStream,
                                                          record_updated_str))
                           /\ counter' = counter + 1
                      ELSE UNCHANGED <<out, counter>>
                   /\ IF max_updated_dt = None
                         \/ record_updated_dt > max_updated_dt
                      THEN /\ max_updated_dt' = record_updated_dt
                           /\ max_updated_str' = record_updated_str
                      ELSE UNCHANGED <<max_updated_dt, max_updated_str>>
                   /\ runs' = [runs EXCEPT
                                  ![Len(runs)].fed =
                                      Append(@, record_updated_str),
                                  ![Len(runs)].children =
                                      Append(@, record_updated_str)]
    /\ feed' = Tail(feed)
    /\ UNCHANGED <<config, state, syncpc, calls, bookmark_date,
                   current_max_bookmark_date, params, last_bookmark_dt>>

\* the generator is exhausted: the bookmark is written if a record passed,
\* and sync returns
PseudoSyncFinish ==
    /\ syncpc = "loop"
    /\ feed = <<>>
    /\ IF NonEmpty(max_updated_str)
       THEN LET wb == _write_bookmark(state, max_updated_str)
            IN  /\ state' = wb.state
                /\ out' = IF wb.wrote THEN Append(out, StateMsg(wb.state))
                          ELSE out
       ELSE UNCHANGED <<state, out>>
    /\ runs' = [runs EXCEPT ![Len(runs)].final =
                   state'.bookmarks[<<PseudoStream, bookmark_field>>],
                   ![Len(runs)].done = TRUE]
    /\ syncpc' = "done"
    /\ UNCHANGED <<config, feed, calls, bookmark_date,
                   current_max_bookmark_date, params, last_bookmark_dt,
                   max_updated_str, max_updated_dt, counter>>

\* ------------------------------------------------------------------------
\* FullTableStream
\* ------------------------------------------------------------------------
\* mutant: the stream never counts as selected
is_selected_never == FALSE

\* BaseStream.is_selected
is_selected == config.selected

\* FullTableStream.sync up to the for loop; f is what get_records will
\* yield, each record standing for its content after modify_object and
\* transform.  A later run reads the same upstream data as the first.
FullSyncStart(f) ==
    /\ syncpc \in {"idle", "done"}
    /\ Len(runs) < MaxRuns
    /\ runs # <<>> => f = runs[1].input
    /\ runs' = Append(runs, NewRun(None, f))
    /\ feed' = f
    /\ counter' = 0
    /\ syncpc' = "loop"
    /\ UNCHANGED <<config, state, out, calls, bookmark_date,
                   current_max_bookmark_date, params, last_bookmark_dt,
                   max_updated_str, max_updated_dt>>

\* one pass of the for loop; the run notes in children the records
\* sync_child_streams is called for
FullSyncRecord ==
    /\ syncpc = "loop"
    /\ feed # <<>>
    /\ LET record == Head(feed)
       IN  /\ IF is_selected
              THEN /\ out' = Append(out, RecordMsg(FullStream, record))
                   /\ counter' = counter + 1
              ELSE UNCHANGED <<out, counter>>
           /\ runs' = [runs EXCEPT ![Len(runs)].fed = Append(@, record),
                                    ![Len(runs)].children = Append(@, record)]
    /\ feed' = Tail(feed)
    /\ UNCHANGED <<config, state, syncpc, calls, bookmark_date,
                   current_max_bookmark_date, params, last_bookmark_dt,
                   max_updated_str, max_updated_dt>>

\* the generator is exhausted: sync returns counter.value
FullSyncFinish ==
    /\ syncpc = "loop"
    /\ feed = <<>>
    /\ runs' = [runs EXCEPT ![Len(runs)].done = TRUE]
    /\ syncpc' = "done"
    /\ UNCHANGED <<config, state, out, feed, calls, bookmark_date,
                   current_max_bookmark_date, params, last_bookmark_dt,
                   max_updated_str, max_updated_dt, counter>>

\* ------------------------------------------------------------------------
\* The registry and sync()
\* ------------------------------------------------------------------------
StreamNames == {"apps", "events", "roles", "app_tables", "tables",
                "table_relationships", "table_reports", "get_reports",
                "fields", "get_fields", "fields_usage", "get_field_usage"}

StreamClass(p, c, k) == [parent |-> p, children |-> c, kind |-> k]

\* STREAMS with the parent, children and base class of every stream class
RegisteredStreams ==
    [n \in StreamNames |->
        CASE n = "apps" ->
                 StreamClass("", <<"events", "roles", "app_tables">>, "pseudo")
          [] n = "events" -> StreamClass("apps", <<>>, "full")
          [] n = "roles" -> StreamClass("apps", <<>>, "full")
          [] n = "app_tables" ->
                 StreamClass("apps",
                             <<"tables", "table_relationships",
                               "table_reports", "fields", "fields_usage">>,
                             "incremental")
          [] n = "tables" -> StreamClass("app_tables", <<>>, "incremental")
          [] n = "table_relationships" ->
                 StreamClass("app_tables", <<>>, "full")
          [] n = "table_reports" -> StreamClass("app_tables", <<>>, "full")
          [] n = "get_reports" -> StreamClass("table_reports", <<>>, "full")
          [] n = "fields" -> StreamClass("app_tables", <<>>, "full")
          [] n = "get_fields" -> StreamClass("fields", <<>>, "full")
          [] n = "fields_usage" -> StreamClass("app_tables", <<>>, "full")
          [] n = "get_field_usage" -> StreamClass("fields_usage", <<>>, "full")]

\* STREAMS as the unit tests of sync() patch it: every name gives a stream
\* without parent and without children
FlatStreams == [n \in StreamNames |-> StreamClass("", <<>>, "full")]

\* state without the key 'currently_syncing', and the key holding None
Absent == "<absent>"
NoneName == "<None>"

\* what a get_records call of the stream yields: for each record, whether it
\* passes the filter of an incremental or pseudo-incremental stream
Feed(stream) ==
    IF STREAMS[stream].parent = "" THEN upstream.top ELSE upstream.sub

\* mutant: every stream counts as selected
stream_is_selected_always(stream) == TRUE

\* BaseStream.is_selected, by the catalog entry of the stream
stream_is_selected(stream) == stream \in Range(selection)

\* an entry of the journal: a message written (SCHEMA, RECORD, STATE) or
\* something else the run did (SYNC, FETCH, BOOKMARK, RETURN, RAISE,
\* WARNING), the stream it belongs to, the path of the record it is about
\* (the record's number under each ancestor's record; for a SCHEMA, STATE
\* or SYNC of a child, the path of the parent record), and for a STATE
\* message the value of currently_syncing it carries
Ev(type, stream, path, arg) ==
    [type |-> type, stream |-> stream, path |-> path, arg |-> arg]

\* BaseStream.write_schema when the stream is selected
SchemaIfSelected(stream, path) ==
    IF stream_is_selected(stream) THEN <<Ev("SCHEMA", stream, path, "")>>
    ELSE <<>>

\* mutant: the marker is kept when the stream name is None
update_currently_syncing_keep(cs, stream_name) ==
    IF stream_name = NoneName THEN cs ELSE stream_name

\* update_currently_syncing: the new value of state['currently_syncing']
update_currently_syncing(cs, stream_name) ==
    IF stream_name = NoneName /\ cs \notin {Absent, NoneName}
    THEN Absent
    ELSE stream_name

\* mutant: every declared child is attached
attaches_all(child, sts) == TRUE

\* if child in streams_to_sync
attaches(child, sts) == child \in Range(sts)

\* setup_children: child_to_sync of the stream and of what it attaches
RECURSIVE setup_children(_, _, _)
RECURSIVE setup_children_from(_, _, _, _)
setup_children_from(stream, i, sts, cts) ==
    IF i > Len(STREAMS[stream].children) THEN cts
    ELSE LET child == STREAMS[stream].children[i]
         IN  IF attaches(child, sts)
             THEN setup_children_from(stream, i + 1, sts,
                      setup_children(child, sts,
                          [cts EXCEPT ![stream] = Append(@, child),
                                      ![child] = <<>>]))
             ELSE setup_children_from(stream, i + 1, sts, cts)

setup_children(stream, sts, cts) == setup_children_from(stream, 1, sts, cts)

\* a running sync call: the stream, the path of the parent record it was
\* called for (<<>> at the top), the records fetched so far, and where it is
Frame(stream, path) ==
    [stream |-> stream, path |-> path, n |-> 0, pc |-> "records", child |-> 0]

Top == stack[Len(stack)]

Push(f) == stack' = Append(stack, f)

\* sync_child_streams after a child returned or was skipped: the next child,
\* or back to the for loop of the parent
AfterChild(f) ==
    IF f.child < Len(child_to_sync[f.stream])
    THEN [f EXCEPT !.child = @ + 1]
    ELSE [f EXCEPT !.pc = "records", !.child = 0]

\* the innermost call has ended and control is back in its caller
PopTo(caller) ==
    stack' = [i \in 1..(Len(stack) - 1) |->
                 IF i = Len(stack) - 1 THEN caller ELSE stack[i]]

\* sync(): catalog.get_selected_streams and the start of the while loop
SyncEnter ==
    /\ opc = "idle"
    /\ streams_to_sync' = selection
    /\ index' = 0
    /\ opc' = "loop"
    /\ UNCHANGED <<STREAMS, selection, upstream, child_to_sync, stack,
                   currently_syncing, failed, journal>>

\* mutant: the parent is appended whether or not the list holds it
with_parent_always(sts, parent) == Append(sts, parent)

\* if stream.parent not in streams_to_sync: streams_to_sync.append(...)
with_parent(sts, parent) ==
    IF parent \notin Range(sts) THEN Append(sts, parent) ELSE sts

\* sync(): one pass of the while loop for a stream that names a parent
SyncSkipChild ==
    /\ opc = "loop"
    /\ index < Len(streams_to_sync)
    /\ LET stream_name == streams_to_sync[index + 1]
           parent == STREAMS[stream_name].parent
       IN  /\ parent # ""
           /\ streams_to_sync' = with_parent(streams_to_sync, parent)
    /\ index' = index + 1
    /\ UNCHANGED <<STREAMS, selection, upstream, child_to_sync, stack, opc,
                   currently_syncing, failed, journal>>

\* sync(): one pass of the while loop for a top-level stream, up to the for
\* loop of its sync
SyncTopLevel ==
    /\ opc = "loop"
    /\ index < Len(streams_to_sync)
    /\ LET stream_name == streams_to_sync[index + 1]
           cs == update_currently_syncing(currently_syncing, stream_name)
       IN  /\ STREAMS[stream_name].parent = ""
           /\ child_to_sync' =
                  setup_children(stream_name, streams_to_sync,
                                 [child_to_sync EXCEPT ![stream_name] = <<>>])
           /\ currently_syncing' = cs
           /\ journal' = journal \o SchemaIfSelected(stream_name, <<>>)
                                 \o <<Ev("STATE", stream_name, <<>>, cs),
                                      Ev("SYNC", stream_name, <<>>, "")>>
           /\ Push(Frame(stream_name, <<>>))
    /\ index' = index + 1
    /\ opc' = "sync"
    /\ UNCHANGED <<STREAMS, selection, upstream, streams_to_sync, failed>>

\* sync(): the work list is exhausted
SyncReturn ==
    /\ opc = "loop"
    /\ index >= Len(streams_to_sync)
    /\ opc' = "returned"
    /\ UNCHANGED <<STREAMS, selection, upstream, streams_to_sync, index,
                   child_to_sync, stack, currently_syncing, failed, journal>>

\* mutant: the children are synced for filtered records too
record_passes_all(stream, n) == TRUE

\* the filter of the sync of the stream on its n-th record
record_passes(stream, n) ==
    STREAMS[stream].kind = "full" \/ Feed(stream)[n]

\* the sync on top: get_records yields the next record; the body of the for
\* loop up to sync_child_streams
StreamRecord ==
    /\ opc = "sync"
    /\ Top.pc = "records"
    /\ Top.n < Len(Feed(Top.stream))
    /\ LET n == Top.n + 1
           path == Append(Top.path, n)
           passes == record_passes(Top.stream, n)
       IN  /\ journal' = journal
                  \o <<Ev("FETCH", Top.stream, path, "")>>
                  \o (IF passes /\ stream_is_selected(Top.stream)
                      THEN <<Ev("RECORD", Top.stream, path, "")>>
                      ELSE <<>>)
           /\ stack' = [stack EXCEPT ![Len(stack)] =
                  IF passes /\ child_to_sync[Top.stream] # <<>>
                  THEN [@ EXCEPT !.n = n, !.pc = "children", !.child = 1]
                  ELSE [@ EXCEPT !.n = n]]
    /\ UNCHANGED <<STREAMS, selection, upstream, streams_to_sync, index,
                   child_to_sync, opc, currently_syncing, failed>>

\* mutant: the marker is not moved to the child
set_currently_syncing_skip(cs, child) == cs

\* set_currently_syncing(state, child.tap_stream_id)
set_currently_syncing(cs, child) == child

\* mutant: the children are handed the record that comes next
parent_obj_next(f) == Append(f.path, f.n + 1)

\* the record handed to the children: the one the for loop of f is on
parent_obj(f) == Append(f.path, f.n)

\* sync_child_streams: one pass of its loop up to the for loop of the child
ChildSync ==
    /\ opc = "sync"
    /\ Top.pc = "children"
    /\ LET child == child_to_sync[Top.stream][Top.child]
           path == parent_obj(Top)
       IN  /\ currently_syncing' =
                  set_currently_syncing(currently_syncing, child)
           /\ journal' = journal \o SchemaIfSelected(child, path)
                                 \o <<Ev("STATE", child, path,
                                         currently_syncing'),
                                      Ev("SYNC", child, path, "")>>
           /\ Push(Frame(child, path))
    /\ UNCHANGED <<STREAMS, selection, upstream, streams_to_sync, index,
                   child_to_sync, opc, failed>>

\* the sync on top: get_records is exhausted; the bookmark is written as the
\* base class does and the call returns.  wrote: the largest timestamp that
\* passed is later than the stored bookmark (PseudoIncrementalStream).
StreamReturn(wrote) ==
    /\ opc = "sync"
    /\ Top.pc = "records"
    /\ Top.n = Len(Feed(Top.stream))
    /\ LET kind == STREAMS[Top.stream].kind
           passed == \E i \in 1..Len(Feed(Top.stream)) : Feed(Top.stream)[i]
           bookmark ==
               CASE kind = "incremental" ->
                        <<Ev("BOOKMARK", Top.stream, Top.path, "")>>
                 [] kind = "pseudo" /\ passed /\ wrote ->
                        <<Ev("BOOKMARK", Top.stream, Top.path, ""),
                          Ev("STATE", Top.stream, Top.path,
                             currently_syncing)>>
                 [] OTHER -> <<>>
           return == <<Ev("RETURN", Top.stream, Top.path, "")>>
       IN  /\ wrote => (kind = "pseudo" /\ passed)
           /\ IF Len(stack) > 1
              THEN /\ PopTo(AfterChild(stack[Len(stack) - 1]))
                   /\ journal' = journal \o bookmark \o return
                   /\ UNCHANGED <<opc, currently_syncing>>
              ELSE LET cs == update_currently_syncing(currently_syncing,
                                                      NoneName)
                   IN  /\ stack' = <<>>
                       /\ currently_syncing' = cs
                       /\ journal' = journal \o bookmark \o return
                                         \o <<Ev("STATE", Top.stream, <<>>, cs)>>
                       /\ opc' = "loop"
    /\ UNCHANGED <<STREAMS, selection, upstream, streams_to_sync, index,
                   child_to_sync, failed>>

\* mutant: sync_child_streams catches nothing
caught_never(error, depth) == FALSE

\* mutant: sync_child_streams catches every error of a child sync
caught_all(error, depth) == depth > 1

\* sync_child_streams catches QuickbaseForbiddenError raised by a child sync
caught(error, depth) == error = "forbidden" /\ depth > 1

\* the sync on top: the request of get_records raises.  A 403 of a child is
\* caught by the sync_child_streams that called it, which goes on with the
\* next child; any other error, and any error of a top-level stream, leaves
\* sync().
StreamRaise(error) ==
    /\ opc = "sync"
    /\ Top.pc = "records"
    /\ ~failed
    /\ failed' = TRUE
    /\ IF caught(error, Len(stack))
       THEN /\ PopTo(AfterChild(stack[Len(stack) - 1]))
            /\ journal' = journal
                   \o <<Ev("RAISE", Top.stream, Top.path, error),
                        Ev("WARNING", Top.stream, Top.path, "")>>
            /\ opc' = opc
       ELSE /\ stack' = <<>>
            /\ journal' = journal
                   \o <<Ev("RAISE", Top.stream, Top.path, error)>>
            /\ opc' = "raised"
    /\ UNCHANGED <<STREAMS, selection, upstream, streams_to_sync, index,
                   child_to_sync, currently_syncing>>

\* ------------------------------------------------------------------------
\* Client.__make_request under backoff.on_exception
\* ------------------------------------------------------------------------
\* what self._session.request does: it returns a response with a status and
\* a body that is JSON or not, or it raises a network error
Response(status, json) == [status |-> status, json |-> json, error |-> ""]

NetworkError(class) == [status |-> None, json |-> FALSE, error |-> class]

Statuses == {200, 201, 202, 204, 400, 401, 403, 404, 409, 418, 422, 429, 500,
             501, 502, 503, 504}

NetworkErrors == {"ConnectionResetError", "ConnectionError",
                  "ChunkedEncodingError", "Timeout"}

Answers == {Response(st, TRUE) : st \in Statuses}
               \cup {Response(204, FALSE)}
               \cup {NetworkError(c) : c \in NetworkErrors}

\* the class statements of exceptions.py: the base each class derives from
base(class) ==
    CASE class \in {"QuickbaseUnprocessableEntityError",
                    "QuickbaseRateLimitError",
                    "QuickbaseInternalServerError",
                    "QuickbaseNotImplementedError",
                    "QuickbaseBadGatewayError",
                    "QuickbaseServiceUnavailableError"} ->
             "QuickbaseBackoffError"
      [] class \in {"QuickbaseBackoffError", "QuickbaseBadRequestError",
                    "QuickbaseUnauthorizedError", "QuickbaseForbiddenError",
                    "QuickbaseNotFoundError", "QuickbaseConflictError"} ->
             "QuickbaseError"
      [] class = "QuickbaseError" -> "Exception"
      [] OTHER -> "object"

\* issubclass(class, ancestor) along the chain of bases
RECURSIVE issubclass(_, _)
issubclass(class, ancestor) ==
    \/ class = ancestor
    \/ class # "object" /\ issubclass(base(class), ancestor)

\* mutant: 409 shares the class of 400
raise_exception_conflated(status) ==
    CASE status = 400 -> "QuickbaseBadRequestError"
      [] status = 401 -> "QuickbaseUnauthorizedError"
      [] status = 403 -> "QuickbaseForbiddenError"
      [] status = 404 -> "QuickbaseNotFoundError"
      [] status = 409 -> "QuickbaseBadRequestError"
      [] status = 422 -> "QuickbaseUnprocessableEntityError"
      [] status = 429 -> "QuickbaseRateLimitError"
      [] status = 500 -> "QuickbaseInternalServerError"
      [] status = 501 -> "QuickbaseNotImplementedError"
      [] status = 502 -> "QuickbaseBadGatewayError"
      [] status = 503 -> "QuickbaseServiceUnavailableError"
      [] OTHER -> "QuickbaseError"

\* ERROR_CODE_EXCEPTION_MAPPING.get(status, {}).get("raise_exception",
\* QuickbaseError)
raise_exception(status) ==
    CASE status = 400 -> "QuickbaseBadRequestError"
      [] status = 401 -> "QuickbaseUnauthorizedError"
      [] status = 403 -> "QuickbaseForbiddenError"
      [] status = 404 -> "QuickbaseNotFoundError"
      [] status = 409 -> "QuickbaseConflictError"
      [] status = 422 -> "QuickbaseUnprocessableEntityError"
      [] status = 429 -> "QuickbaseRateLimitError"
      [] status = 500 -> "QuickbaseInternalServerError"
      [] status = 501 -> "QuickbaseNotImplementedError"
      [] status = 502 -> "QuickbaseBadGatewayError"
      [] status = 503 -> "QuickbaseServiceUnavailableError"
      [] OTHER -> "QuickbaseError"

\* raise_for_error: the class of the error raised, "" when nothing is raised
raise_for_error(response) ==
    IF response.status \notin {200, 201, 204}
    THEN raise_exception(response.status)
    ELSE ""

\* the classes derived from QuickbaseBackoffError
BackoffErrors == {"QuickbaseBackoffError",
                  "QuickbaseUnprocessableEntityError",
                  "QuickbaseRateLimitError", "QuickbaseInternalServerError",
                  "QuickbaseNotImplementedError", "QuickbaseBadGatewayError",
                  "QuickbaseServiceUnavailableError"}

\* mutant: backoff retries on every error
retried_all(error) == error # ""

\* the exception argument of backoff.on_exception
retried(error) == error \in NetworkErrors \cup BackoffErrors

\* mutant: backoff gives up one attempt late
gives_up_late(tries) == tries = max_tries + 1

\* backoff.on_exception gives up when the tries reach max_tries
gives_up(tries) == tries = max_tries

\* the body of __make_request on the answer of the session: the class of the
\* error it raises, "" when it returns response.json()
body_of_make_request(method, answer) ==
    IF method \notin {"GET", "POST"} THEN "ValueError"
    ELSE IF answer.error # "" THEN answer.error
    ELSE IF raise_for_error(answer) # "" THEN raise_for_error(answer)
    ELSE IF ~answer.json THEN "JSONDecodeError"
    ELSE ""

\* __make_request(method, ...) is called
MakeRequest(method) ==
    /\ outcome.pc = "idle"
    /\ outcome' = [pc |-> "trying", method |-> method, error |-> ""]
    /\ UNCHANGED <<tried, sleeps>>

\* one attempt: the body runs on the answer of the session; backoff returns
\* its value, re-raises its error, or sleeps before the next attempt
Attempt(answer) ==
    /\ outcome.pc = "trying"
    /\ LET error == body_of_make_request(outcome.method, answer)
           requested == outcome.method \in {"GET", "POST"}
           tries == Len(tried) + 1
       IN  /\ tried' = IF requested THEN Append(tried, answer) ELSE tried
           /\ CASE error = "" ->
                       /\ outcome' = [outcome EXCEPT !.pc = "returned"]
                       /\ sleeps' = sleeps
                [] error # "" /\ retried(error) /\ ~gives_up(tries) ->
                       /\ outcome' = outcome
                       /\ sleeps' = sleeps + 1
                [] OTHER ->
                       /\ outcome' = [outcome EXCEPT !.pc = "raised",
                                                     !.error = error]
                       /\ sleeps' = sleeps

\* ------------------------------------------------------------------------
\* Specifications
\* ------------------------------------------------------------------------
\* no sync call is running: get_records is driven directly
NoSync ==
    /\ config = [start_date |-> 0, selected |-> TRUE, replication_keys |-> <<>>]
    /\ state = EmptyState
    /\ out = <<>>
    /\ syncpc = "idle"
    /\ feed = <<>>
    /\ runs = <<>>
    /\ calls = [n |-> 0, stream |-> "", key |-> "", value |-> None]
    /\ bookmark_date = None
    /\ current_max_bookmark_date = None
    /\ params = None
    /\ last_bookmark_dt = None
    /\ max_updated_str = None
    /\ max_updated_dt = None
    /\ counter = 0

\* get_records has not been called
NoPagination ==
    /\ api = [mode |-> "none", pool |-> {}, total |-> None, n |-> 0, top |-> 0]
    /\ page_size = 0
    /\ skip = 0
    /\ iteration = 0
    /\ seen_ids = {}
    /\ dup_pages = 0
    /\ last_sig = NoSig
    /\ gen = "idle"
    /\ requests = <<>>
    /\ pages = <<>>
    /\ yielded = <<>>
    /\ log = {}

\* sync() has not been called
NoOrchestration ==
    /\ STREAMS = RegisteredStreams
    /\ selection = <<>>
    /\ upstream = [top |-> <<>>, sub |-> <<>>]
    /\ streams_to_sync = <<>>
    /\ index = 0
    /\ child_to_sync = [n \in StreamNames |-> <<>>]
    /\ stack = <<>>
    /\ opc = "idle"
    /\ currently_syncing = Absent
    /\ failed = FALSE
    /\ journal = <<>>

\* __make_request has not been called
NoRequest ==
    /\ tried = <<>>
    /\ sleeps = 0
    /\ outcome = [pc |-> "idle", method |-> "", error |-> ""]

\* get_records against an API that answers anything
Init ==
    /\ api \in AnyApis
    /\ \E psize \in 1..MaxPageSize : GetRecordsInit(psize)
    /\ NoSync
    /\ NoOrchestration
    /\ NoRequest

Next == ApiAnswers /\ UNCHANGED <<svars, ovars, rvars>>

Spec == Init /\ [][Next]_vars

\* get_records of a single-resource stream, for each parent record in turn
InitSingle ==
    /\ api \in SingleApis
    /\ GetRecordsInit(configured_page_size(api.top))
    /\ NoSync
    /\ NoOrchestration
    /\ NoRequest

ServeResource == ApiServesResource /\ UNCHANGED <<svars, ovars, rvars>>

NextCall == GetRecordsAgain /\ UNCHANGED <<svars, ovars, rvars>>

NextSingle == ServeResource \/ NextCall

SpecSingle == InitSingle /\ [][NextSingle]_vars

\* get_records against an API that answers anything with full pages
InitWide ==
    /\ api \in WideApis
    /\ GetRecordsInit(api.top)
    /\ NoSync
    /\ NoOrchestration
    /\ NoRequest

SpecWide == InitWide /\ [][Next]_vars

\* get_records with the page size of the config, or the default, for a
\* stream with or without an updated_since base parameter
InitParams ==
    /\ api \in ParamApis
    /\ GetRecordsInit(configured_page_size(api.top))
    /\ NoOrchestration
    /\ NoRequest
    /\ config = [start_date |-> 0, selected |-> TRUE, replication_keys |-> <<>>]
    /\ state = EmptyState
    /\ out = <<>>
    /\ syncpc = "idle"
    /\ feed = <<>>
    /\ runs = <<>>
    /\ calls = [n |-> 0, stream |-> "", key |-> "", value |-> None]
    /\ bookmark_date = None
    /\ current_max_bookmark_date = None
    /\ params \in {None, 0}
    /\ last_bookmark_dt = None
    /\ max_updated_str = None
    /\ max_updated_dt = None
    /\ counter = 0

SpecParams == InitParams /\ [][Next]_vars

\* The state of a get_records call against a scripted API after k passes
\* that each took a full page and went on: page i is the API's i-th answer,
\* every record of it was yielded, the offset advanced by a page each time.
\* AfterPasses(a, 0) is the state GetRecordsInit describes.
AfterPasses(a, k) ==
    LET Page(i) == IF a.mode = "forever" THEN ForeverBody(i)
                   ELSE HonourBody(a.n, (i - 1) * a.top, a.top)
        all == {Page(i)[j] : i \in 1..k, j \in 1..a.top}
    IN  [page_size |-> a.top,
         skip |-> k * a.top,
         iteration |-> k,
         seen_ids |-> {<<tap_stream_id, record_id(r)>> :
                          r \in {x \in all : record_id(x) # None}},
         dup_pages |-> 0,
         last_sig |-> IF k = 0 THEN NoSig
                      ELSE _create_page_signature(Page(k)),
         gen |-> "running",
         requests |-> [i \in 1..k |->
                          pagination_params(self_params, (i - 1) * a.top,
                                            a.top)],
         pages |-> [i \in 1..k |-> Page(i)],
         yielded |-> [i \in 1..(k * a.top) |->
                         Page(((i - 1) \div a.top) + 1)[((i - 1) % a.top) + 1]],
         log |-> {}]

\* the get_records call is in the state s
GetRecordsAt(s) ==
    /\ page_size = s.page_size
    /\ skip = s.skip
    /\ iteration = s.iteration
    /\ seen_ids = s.seen_ids
    /\ dup_pages = s.dup_pages
    /\ last_sig = s.last_sig
    /\ gen = s.gen
    /\ requests = s.requests
    /\ pages = s.pages
    /\ yielded = s.yielded
    /\ log = s.log

\* a call that would take max_iterations passes or more is a long one
LongCall(a) == a.mode = "forever" \/ a.n >= max_iterations * a.top

\* the passes made when the model takes a call up: none, and for a long call
\* the last ones before the iteration limit
StartPasses(a) ==
    IF LongCall(a) THEN (max_iterations - MaxTail)..(max_iterations - 1)
    ELSE {0}

\* get_records against the scripted APIs
InitScripted ==
    /\ api \in HonourApis(HonourCases) \cup ForeverApis
    /\ NoSync
    /\ \E k \in StartPasses(api) : GetRecordsAt(AfterPasses(api, k))
    /\ NoOrchestration
    /\ NoRequest

HonourStep == ApiHonours /\ UNCHANGED <<svars, ovars, rvars>>

ForeverStep == ApiAnswersForever /\ UNCHANGED <<svars, ovars, rvars>>

NextScripted == HonourStep \/ ForeverStep

\* the request executor returns or raises: a call of make_request does not
\* block forever, so the loop always takes its next pass
SpecScripted ==
    InitScripted /\ [][NextScripted]_vars /\ WF_vars(NextScripted)

\* get_records against the API that honours skip and top, up to data sets
\* larger than the iteration limit lets through
InitHonour ==
    /\ api \in HonourApis(HonourCases \cup LimitCases)
    /\ NoSync
    /\ \E k \in StartPasses(api) : GetRecordsAt(AfterPasses(api, k))
    /\ NoOrchestration
    /\ NoRequest

NextHonour == HonourStep

SpecHonour == InitHonour /\ [][NextHonour]_vars

\* the long calls in full, from the top of get_records
InitWholeCalls ==
    /\ api \in HonourApis(LimitCases) \cup ForeverApis
    /\ GetRecordsInit(api.top)
    /\ NoSync
    /\ NoOrchestration
    /\ NoRequest

SpecWholeCalls == InitWholeCalls /\ [][NextScripted]_vars

\* a long call gets to each state it is taken up in: after that many passes
\* it is running and in the state AfterPasses gives
AfterPassesIsReached ==
    iteration \in StartPasses(api)
        => GetRecordsAt(AfterPasses(api, iteration))

\* write_bookmark calls on a state file that holds any bookmarks
BookmarkStreams == {IncStream, "stream_2"}
BookmarkKeys == {"updated_at", "other"}
Values == 0..MaxValue

InitBookmark ==
    /\ NoPagination
    /\ NoOrchestration
    /\ NoRequest
    /\ config \in [start_date : Values, selected : {TRUE},
                   replication_keys : {<<>>, <<"updated_at">>}]
    /\ \E b \in [BookmarkStreams \X BookmarkKeys -> {None} \cup Values] :
           state = [bookmarks |->
                       [p \in BmStreams \X BmKeys |->
                           IF p \in DOMAIN b THEN b[p] ELSE None]]
    /\ out = <<>>
    /\ syncpc = "idle"
    /\ feed = <<>>
    /\ runs = <<>>
    /\ calls = [n |-> 0, stream |-> "", key |-> "", value |-> None]
    /\ bookmark_date = None
    /\ current_max_bookmark_date = None
    /\ params = None
    /\ last_bookmark_dt = None
    /\ max_updated_str = None
    /\ max_updated_dt = None
    /\ counter = 0

BookmarkCall ==
    /\ \E stream \in BookmarkStreams, key \in {""} \cup BookmarkKeys,
          value \in Values : WriteBookmark(stream, key, value)
    /\ UNCHANGED <<pvars, ovars, rvars>>

NextBookmark == BookmarkCall

SpecBookmark == InitBookmark /\ [][NextBookmark]_vars

\* runs of IncrementalStream.sync, each on the state the previous one left
InitIncremental ==
    /\ NoPagination
    /\ NoOrchestration
    /\ NoRequest
    /\ config \in [start_date : Values, selected : BOOLEAN,
                   replication_keys : {<<"updated_at">>}]
    /\ \E b \in {None} \cup Values :
           state = singer_write_bookmark(EmptyState, IncStream,
                                         "updated_at", b)
    /\ out = <<>>
    /\ syncpc = "idle"
    /\ feed = <<>>
    /\ runs = <<>>
    /\ calls = [n |-> 0, stream |-> "", key |-> "", value |-> None]
    /\ bookmark_date = None
    /\ current_max_bookmark_date = None
    /\ params = None
    /\ last_bookmark_dt = None
    /\ max_updated_str = None
    /\ max_updated_dt = None
    /\ counter = 0

IncStart ==
    /\ syncpc \in {"idle", "done"}
    /\ \E f \in SeqsUpTo(Values, MaxFeed) : IncSyncStart(f)
    /\ UNCHANGED <<pvars, ovars, rvars>>

IncRecord == IncSyncRecord /\ UNCHANGED <<pvars, ovars, rvars>>

IncFinish == IncSyncFinish /\ UNCHANGED <<pvars, ovars, rvars>>

NextIncremental == IncStart \/ IncRecord \/ IncFinish

SpecIncremental == InitIncremental /\ [][NextIncremental]_vars

\* runs of PseudoIncrementalStream.sync over the same upstream data
UpdatedValues == {None, EmptyStr, BadStr} \cup TsStrings

InitPseudo ==
    /\ NoPagination
    /\ NoOrchestration
    /\ NoRequest
    /\ config \in [start_date : {None, BadStr} \cup TsStrings,
                   selected : BOOLEAN, replication_keys : {<<>>}]
    /\ \E b \in UpdatedValues :
           state = singer_write_bookmark(EmptyState, PseudoStream,
                                         bookmark_field, b)
    /\ out = <<>>
    /\ syncpc = "idle"
    /\ feed = <<>>
    /\ runs = <<>>
    /\ calls = [n |-> 0, stream |-> "", key |-> "", value |-> None]
    /\ bookmark_date = None
    /\ current_max_bookmark_date = None
    /\ params = None
    /\ last_bookmark_dt = None
    /\ max_updated_str = None
    /\ max_updated_dt = None
    /\ counter = 0

PseudoStart ==
    /\ syncpc \in {"idle", "done"}
    /\ \E f \in SeqsUpTo(UpdatedValues, MaxFeed) : PseudoSyncStart(f)
    /\ UNCHANGED <<pvars, ovars, rvars>>

PseudoRecord == PseudoSyncRecord /\ UNCHANGED <<pvars, ovars, rvars>>

PseudoFinish == PseudoSyncFinish /\ UNCHANGED <<pvars, ovars, rvars>>

NextPseudo == PseudoStart \/ PseudoRecord \/ PseudoFinish

SpecPseudo == InitPseudo /\ [][NextPseudo]_vars

\* runs of FullTableStream.sync on a state file that holds any bookmark
InitFullTable ==
    /\ NoPagination
    /\ NoOrchestration
    /\ NoRequest
    /\ config \in [start_date : {0}, selected : BOOLEAN,
                   replication_keys : {<<>>}]
    /\ \E b \in [{FullStream} \X BookmarkKeys -> {None} \cup Values] :
           state = [bookmarks |->
                       [p \in BmStreams \X BmKeys |->
                           IF p \in DOMAIN b THEN b[p] ELSE None]]
    /\ out = <<>>
    /\ syncpc = "idle"
    /\ feed = <<>>
    /\ runs = <<>>
    /\ calls = [n |-> 0, stream |-> "", key |-> "", value |-> None]
    /\ bookmark_date = None
    /\ current_max_bookmark_date = None
    /\ params = None
    /\ last_bookmark_dt = None
    /\ max_updated_str = None
    /\ max_updated_dt = None
    /\ counter = 0

FullStart ==
    /\ syncpc \in {"idle", "done"}
    /\ \E f \in SeqsUpTo(Values, MaxFullFeed) : FullSyncStart(f)
    /\ UNCHANGED <<pvars, ovars, rvars>>

FullRecord == FullSyncRecord /\ UNCHANGED <<pvars, ovars, rvars>>

FullFinish == FullSyncFinish /\ UNCHANGED <<pvars, ovars, rvars>>

NextFullTable == FullStart \/ FullRecord \/ FullFinish

SpecFullTable == InitFullTable /\ [][NextFullTable]_vars

\* sync() on a catalog that selects some streams, against an upstream that
\* gives every get_records call the same records
Selectable == {"apps", "events", "app_tables", "tables", "get_fields"}

Distinct(q) == \A i, j \in 1..Len(q) : i # j => q[i] # q[j]

Selections == {q \in SeqsUpTo(Selectable, MaxSelected) : Distinct(q)}

\* n records, the first of which does not pass the filter if filtered
FeedOf(n, filtered) == [i \in 1..n |-> ~(filtered /\ i = 1)]

Feeds(n) == {FeedOf(k, f) : k \in 0..n, f \in BOOLEAN}

OrchStart ==
    /\ NoPagination
    /\ NoSync
    /\ NoRequest
    /\ streams_to_sync = <<>>
    /\ index = 0
    /\ child_to_sync = [n \in StreamNames |-> <<>>]
    /\ stack = <<>>
    /\ opc = "idle"
    /\ currently_syncing \in {Absent, "apps"}
    /\ failed = FALSE
    /\ journal = <<>>

InitOrch ==
    /\ STREAMS \in {RegisteredStreams, FlatStreams}
    /\ selection \in Selections
    /\ \E f \in Feeds(MaxOrchRecords) : upstream = [top |-> f, sub |-> f]
    /\ OrchStart

Enter == SyncEnter /\ UNCHANGED <<pvars, svars, rvars>>

SkipChild == SyncSkipChild /\ UNCHANGED <<pvars, svars, rvars>>

TopLevel == SyncTopLevel /\ UNCHANGED <<pvars, svars, rvars>>

Return == SyncReturn /\ UNCHANGED <<pvars, svars, rvars>>

Record == StreamRecord /\ UNCHANGED <<pvars, svars, rvars>>

Child == ChildSync /\ UNCHANGED <<pvars, svars, rvars>>

StreamEnd ==
    /\ \E wrote \in BOOLEAN : StreamReturn(wrote)
    /\ UNCHANGED <<pvars, svars, rvars>>

Raise ==
    /\ \E error \in {"forbidden", "fatal"} : StreamRaise(error)
    /\ UNCHANGED <<pvars, svars, rvars>>

NextOrch ==
    \/ Enter
    \/ SkipChild
    \/ TopLevel
    \/ Return
    \/ Record
    \/ Child
    \/ StreamEnd
    \/ Raise

SpecOrch == InitOrch /\ [][NextOrch]_vars

\* sync() with apps and app_tables selected, apps giving at most one record
InitApps ==
    /\ STREAMS = RegisteredStreams
    /\ selection \in {<<"apps", "app_tables">>, <<"app_tables", "apps">>}
    /\ \E t \in Feeds(1), c \in Feeds(MaxChildRecords) :
           upstream = [top |-> t, sub |-> c]
    /\ OrchStart

SpecApps == InitApps /\ [][NextOrch]_vars

\* the errors a call of make_request can end with
RequestErrors == {body_of_make_request("GET", answer) : answer \in Answers}
                     \ {""}

\* mutant: get_records swallows the error and takes the next pass
get_records_catches_all(error) == TRUE

\* the call of make_request in get_records is in no try block: no error is
\* handled there
get_records_catches(error) == FALSE

\* a pass of get_records whose request ends with an error: the statements
\* after the call are not reached
GetRecordsRaise(error) ==
    /\ gen = "running"
    /\ loop_condition(iteration)
    /\ iteration' = iteration + 1
    /\ requests' = Append(requests,
                          pagination_params(self_params, skip, page_size))
    /\ outcome' = [pc |-> "raised", method |-> "GET", error |-> error]
    /\ gen' = IF get_records_catches(error) THEN "running" ELSE "raised"
    /\ UNCHANGED <<page_size, skip, seen_ids, dup_pages, last_sig, api,
                   pages, yielded, log, tried, sleeps>>

\* get_records against the API that honours skip and top, any request of
\* which may fail
InitFailing ==
    /\ api \in HonourApis((1..MaxTop) \X (0..MaxRecords))
    /\ GetRecordsInit(api.top)
    /\ NoSync
    /\ NoOrchestration
    /\ NoRequest

RaiseStep ==
    /\ \E error \in RequestErrors : GetRecordsRaise(error)
    /\ UNCHANGED <<svars, ovars>>

NextFailing == HonourStep \/ RaiseStep

SpecFailing == InitFailing /\ [][NextFailing]_vars

\* one call of __make_request against a session that answers anything
InitRequest ==
    /\ NoPagination
    /\ NoSync
    /\ NoOrchestration
    /\ NoRequest

Call ==
    /\ \E method \in {"GET", "POST", "DELETE"} : MakeRequest(method)
    /\ UNCHANGED <<pvars, svars, ovars>>

Try ==
    /\ \E answer \in Answers : Attempt(answer)
    /\ UNCHANGED <<pvars, svars, ovars>>

NextRequest == Call \/ Try

SpecRequest == InitRequest /\ [][NextRequest]_vars

\* ------------------------------------------------------------------------
\* Properties
\* ------------------------------------------------------------------------
SetMax(S) == CHOOSE x \in S : \A y \in S : y <= x

\* the identity a record carries: its id, or else its nested field.id
Identity(record) == IF record.id # None THEN record.id ELSE record.fid

\* C1: within one get_records call no record whose identity (its id, or else
\* its nested field.id) is present is yielded more than once.
C1_NoIdentityYieldedTwice ==
    \A i, j \in 1..Len(yielded) :
        (i < j /\ Identity(yielded[i]) # None)
            => Identity(yielded[i]) # Identity(yielded[j])

\* C2: get_records issues one request per pass and never more than
\* max_iterations of them; at the limit the generator has returned; and
\* whatever the API answers, the generator eventually returns.
C2_Terminates ==
    /\ [](/\ Len(requests) = iteration
          /\ iteration <= max_iterations
          /\ (iteration = max_iterations => gen = "returned"))
    /\ <>(gen = "returned")

C2_Witness ==
    /\ api.mode = "forever"
    /\ gen = "returned"
    /\ Len(requests) = max_iterations
    /\ "error" \in log

\* no record is yielded twice whose identity, as get_records extracts it
\* (record_id), is not None
NoExtractedIdentityTwice ==
    \A i, j \in 1..Len(yielded) :
        (i < j /\ record_id(yielded[i]) # None)
            => record_id(yielded[i]) # record_id(yielded[j])

SameSignature(p, q) == _create_page_signature(p) = _create_page_signature(q)

RECURSIVE OnceEach(_)
OnceEach(page) ==
    IF page = <<>> THEN <<>>
    ELSE LET front == SubSeq(page, 1, Len(page) - 1)
             last == page[Len(page)]
         IN  IF \E i \in 1..Len(front) : Identity(front[i]) = Identity(last)
             THEN OnceEach(front)
             ELSE Append(OnceEach(front), last)

\* C4: when the first two requests return the identical full page, of
\* records that all carry an identity, get_records has yielded the records
\* of that page once each, has returned, and has issued exactly 2 requests.
C4_IdenticalPageTwice ==
    (/\ Len(pages) >= 2
     /\ pages[1] = pages[2]
     /\ Len(pages[1]) = page_size
     /\ \A i \in 1..Len(pages[1]) : Identity(pages[1][i]) # None)
        => (/\ gen = "returned"
            /\ Len(requests) = 2
            /\ yielded = OnceEach(pages[1]))

\* C5 as claimed: against the API that honours skip and top and sends no
\* metadata, get_records has yielded all n records, each once and in order,
\* when it returns; for page size 50 and 130 records it issued 3 requests.
C5_Original ==
    (api.mode = "honour" /\ api.total = None /\ gen = "returned")
        => (/\ yielded = Dataset(api.n)
            /\ (page_size = 50 /\ api.n = 130) => Len(requests) = 3)

\* C5 as amended: the same for data sets of at most max_iterations pages,
\* n <= max_iterations * page_size.
C5_YieldsAllWithinLimit ==
    (/\ api.mode = "honour" /\ api.total = None /\ gen = "returned"
     /\ api.n <= max_iterations * page_size)
        => (/\ yielded = Dataset(api.n)
            /\ (page_size = 50 /\ api.n = 130) => Len(requests) = 3)

C5_Witness ==
    /\ api.mode = "honour" /\ api.total = None /\ gen = "returned"
    /\ page_size = 50 /\ api.n = 130
    /\ Len(yielded) = 130
    /\ Len(requests) = 3

CeilDiv(a, b) == (a + b - 1) \div b

\* C6 as claimed: against the API that honours skip and top and reports
\* totalRecords = T >= 1, get_records has yielded the T records and issued
\* ceil(T / page_size) requests when it returns, none of them answered by
\* an empty page.
C6_Original ==
    (api.mode = "honour" /\ api.total # None /\ api.n >= 1 /\ gen = "returned")
        => (/\ yielded = Dataset(api.n)
            /\ Len(requests) = CeilDiv(api.n, page_size)
            /\ \A k \in 1..Len(pages) : pages[k] # <<>>)

\* C6 as amended: the same for T <= max_iterations * page_size.
C6_StopsAtTotalWithinLimit ==
    (/\ api.mode = "honour" /\ api.total # None /\ api.n >= 1
     /\ gen = "returned"
     /\ api.n <= max_iterations * page_size)
        => (/\ yielded = Dataset(api.n)
            /\ Len(requests) = CeilDiv(api.n, page_size)
            /\ \A k \in 1..Len(pages) : pages[k] # <<>>)

C6_Witness ==
    /\ api.mode = "honour" /\ api.total = 150 /\ gen = "returned"
    /\ page_size = 50
    /\ Len(yielded) = 150
    /\ Len(requests) = 3
    /\ skip = 150

\* the key a write_bookmark call addresses ("" when it addresses none)
AddressedKey(key) ==
    IF key # "" THEN key
    ELSE IF config.replication_keys # <<>> THEN config.replication_keys[1]
    ELSE ""

\* C7 as claimed: a write_bookmark(state, stream, key, v) call leaves under
\* (stream, key) the larger of v and the value stored there before, which
\* is v when nothing was stored, and never a smaller value than was stored.
C7_Original ==
    [][(calls'.n = calls.n + 1 /\ calls'.key # "") =>
          LET p == <<calls'.stream, calls'.key>>
              previous == state.bookmarks[p]
          IN  /\ state'.bookmarks[p] =
                     IF previous = None THEN calls'.value
                     ELSE SetMax({calls'.value, previous})
              /\ previous # None => state'.bookmarks[p] >= previous]_vars

\* C7 as amended: a write_bookmark(state, stream, key, v) call leaves under
\* (stream, key) the larger of v and the value that was there, or of v and
\* start_date when none was; it never leaves a smaller value than was
\* stored, and it leaves every other bookmark alone.  A call without a key
\* addresses the first replication key, and nothing when there is none.
C7_MaxWins ==
    [][calls'.n = calls.n + 1 =>
          LET k == AddressedKey(calls'.key)
              p == <<calls'.stream, k>>
              previous == state.bookmarks[p]
          IN  IF k = "" THEN state' = state
              ELSE /\ state'.bookmarks[p] =
                          SetMax({calls'.value,
                                  IF previous = None THEN config.start_date
                                  ELSE previous})
                   /\ previous # None => state'.bookmarks[p] >= previous
                   /\ \A q \in DOMAIN state.bookmarks \ {p} :
                          state'.bookmarks[q] = state.bookmarks[q]]_vars

C7_Witness ==
    /\ calls.n >= 2
    /\ calls.key # ""
    /\ state.bookmarks[<<calls.stream, calls.key>>] = config.start_date
    /\ config.start_date > calls.value

\* the values of the records written for a stream by its r-th sync call
RunRecords(stream, r) ==
    LET OfRun(m) == m.type = "RECORD" /\ m.stream = stream /\ m.run = r
        msgs == SelectSeq(out, OfRun)
    IN  [i \in 1..Len(msgs) |-> msgs[i].value]

\* C8: a sync call of the incremental stream that read the bookmark B writes
\* only records whose cursor is >= B; when it has completed, the stored
\* bookmark is the largest of B and the cursors that passed the filter; the
\* next call reads that bookmark and writes no record below it.
C8_IncrementalSync ==
    \A r \in 1..Len(runs) :
        LET B == runs[r].bookmark
            passed == {c \in Range(runs[r].fed) : c >= B}
        IN  /\ \A c \in Range(RunRecords(IncStream, r)) : c >= B
            /\ runs[r].done => runs[r].final = SetMax({B} \cup passed)
            /\ r > 1 =>
                   /\ B = runs[r - 1].final
                   /\ \A c \in Range(RunRecords(IncStream, r)) :
                          c >= runs[r - 1].final

C8_Witness ==
    /\ Len(runs) = 2
    /\ runs[2].done
    /\ runs[1].final > runs[1].bookmark
    /\ RunRecords(IncStream, 2) # <<>>
    /\ \E c \in Range(runs[2].fed) :
           c < runs[1].final /\ c >= runs[1].bookmark

\* the instant T a pseudo-incremental sync call filters against: that of the
\* bookmark it found stored or, without one, of the start date
FilterInstant(r) ==
    _parse_datetime(IF NonEmpty(runs[r].bookmark) THEN runs[r].bookmark
                    ELSE IF config.start_date = None THEN EpochStr
                    ELSE config.start_date)

NewerThan(updated, instant) ==
    _parse_datetime(updated) # None /\ _parse_datetime(updated) > instant

C10_BookmarkAtEnd ==
    [][(syncpc = "loop" /\ syncpc' = "done") =>
          LET r == Len(runs)
              stored == state.bookmarks[<<PseudoStream, bookmark_field>>]
              T == FilterInstant(r)
              passed == {u \in Range(runs[r].fed) :
                            /\ _parse_datetime(u) # None
                            /\ T # None => NewerThan(u, T - TicksPerSecond)}
              M == SetMax({_parse_datetime(u) : u \in passed})
          IN  IF /\ passed # {}
                 /\ \/ _parse_datetime(stored) = None
                    \/ M > _parse_datetime(stored)
              THEN /\ state' = singer_write_bookmark(state, PseudoStream,
                                                     bookmark_field, TsStr(M))
                   /\ out' = Append(out, StateMsg(state'))
              ELSE /\ state' = state
                   /\ out' = out]_vars

C10_Witness ==
    /\ Len(runs) = 2
    /\ runs[2].done
    /\ RunRecords(PseudoStream, 2) # <<>>
    /\ runs[2].final = runs[2].bookmark
    /\ runs[1].final # runs[1].bookmark
    /\ Len(SelectSeq(out, LAMBDA m : m.type = "STATE")) = 1

\* C11: a run of the pseudo-incremental stream that follows another one on
\* the same upstream data, and finds the bookmark T stored, writes exactly
\* the records whose timestamp is later than T minus one second and not
\* later than T, and leaves the bookmark as it found it.
C11_RerunFixpoint ==
    \A r \in 2..Len(runs) :
        LET T == _parse_datetime(runs[r].bookmark)
            InWindow(u) == /\ NewerThan(u, T - TicksPerSecond)
                           /\ _parse_datetime(u) <= T
        IN  T # None =>
                /\ runs[r].input = runs[r - 1].input
                /\ RunRecords(PseudoStream, r) =
                       IF config.selected THEN SelectSeq(runs[r].fed, InWindow)
                       ELSE <<>>
                /\ runs[r].done => runs[r].final = runs[r].bookmark

C11_Witness ==
    /\ Len(runs) >= 2
    /\ runs[2].done
    /\ config.selected
    /\ runs[1].final # runs[1].bookmark
    /\ _parse_datetime(runs[2].bookmark) # None
    /\ runs[2].fed = <<TsStr(_parse_datetime(runs[2].bookmark) - TicksPerSecond),
                        runs[2].bookmark>>
    /\ RunRecords(PseudoStream, 2) = <<runs[2].bookmark>>
    /\ Len(RunRecords(PseudoStream, 1)) = 2


\* C12: a sync call of a selected full-table stream writes every record that
\* get_records yields, in that order and without filtering; when it has
\* returned, the value returned is the number of those records; and no step
\* of the call changes the bookmarks of the state.
C12_FullTableSync ==
    /\ [](\A r \in 1..Len(runs) :
            config.selected =>
                /\ RunRecords(FullStream, r) = runs[r].fed
                /\ runs[r].done => runs[r].fed = runs[r].input
                /\ (r = Len(runs) /\ syncpc = "done") =>
                       counter = Len(runs[r].input))
    /\ [][state'.bookmarks = state.bookmarks]_vars

C12_Witness ==
    /\ syncpc = "done"
    /\ config.selected
    /\ Len(runs) = 1
    /\ Len(runs[1].input) = 3
    /\ runs[1].input[1] > runs[1].input[2]
    /\ Len(RunRecords(FullStream, 1)) = 3
    /\ counter = 3
    /\ \E k \in BookmarkKeys : state.bookmarks[<<FullStream, k>>] # None

\* the messages of the journal
Messages == {"SCHEMA", "RECORD", "STATE"}

RECURSIVE Depth(_)
Depth(stream) ==
    IF STREAMS[stream].parent = "" THEN 0
    ELSE 1 + Depth(STREAMS[stream].parent)

\* the ancestor of the stream that is d levels below the top-level stream
RECURSIVE AncestorAt(_, _)
AncestorAt(stream, d) ==
    IF Depth(stream) = d THEN stream
    ELSE AncestorAt(STREAMS[stream].parent, d)

Before(ev, j) == \E i \in 1..(j - 1) : journal[i] = ev

\* the j-th entry of the journal q, if a message of a child or grandchild,
\* comes after the fetch (and the record, when the parent is selected) of
\* each parent record it descends from, and no later record of that parent
\* under the same ancestors was fetched or written before it
InParentRecord(q, j) ==
    LET e == q[j]
    IN  e.type \in Messages =>
            \A d \in 1..Depth(e.stream) :
                LET s == AncestorAt(e.stream, d - 1)
                    p == SubSeq(e.path, 1, d)
                IN  /\ \E i \in 1..(j - 1) : q[i] = Ev("FETCH", s, p, "")
                    /\ stream_is_selected(s) =>
                           \E i \in 1..(j - 1) : q[i] = Ev("RECORD", s, p, "")
                    /\ \A i \in 1..(j - 1) :
                           ~(/\ q[i].stream = s
                             /\ q[i].type \in {"FETCH", "RECORD"}
                             /\ SubSeq(q[i].path, 1, d - 1) =
                                    SubSeq(p, 1, d - 1)
                             /\ q[i].path[d] > p[d])

\* C13: whenever a step writes a message of a child or grandchild stream,
\* every parent record it descends from has been fetched (and written, when
\* the parent is selected) before it, and no later record of that parent
\* has been fetched or written yet: the messages the children produce for
\* parent record N lie between record N and the fetch of record N + 1.
C13_ChildrenInterleaved ==
    [][\A j \in (Len(journal) + 1)..Len(journal') :
           InParentRecord(journal', j)]_vars

C13_Witness ==
    /\ opc = "returned"
    /\ stream_is_selected("app_tables")
    /\ \E j \in 1..Len(journal) :
           /\ journal[j] = Ev("RECORD", "tables", <<1, 2, 2>>, "")
           /\ Before(Ev("RECORD", "app_tables", <<1, 2>>, ""), j)
           /\ ~Before(Ev("FETCH", "apps", <<2>>, ""), j)
    /\ \E j \in 1..Len(journal) :
           journal[j] = Ev("SCHEMA", "tables", <<2, 1>>, "")


\* the positions of the journal that hold an entry of the type and stream
Entries(type, stream) ==
    {i \in 1..Len(journal) :
        journal[i].type = type /\ journal[i].stream = stream}

Passing(f) == {i \in 1..Len(f) : f[i]}

C15_OneSchemaPerSelected ==
    (opc = "returned" /\ ~failed) =>
        \A s \in Range(selection) :
            /\ Cardinality(Entries("SCHEMA", s)) = 1
            /\ \A i \in Entries("SCHEMA", s), j \in Entries("RECORD", s) :
                   i < j

\* what does hold: no RECORD of a stream without a SCHEMA of it before
SchemaBeforeRecords ==
    \A s \in StreamNames :
        \A j \in Entries("RECORD", s) :
            \E i \in Entries("SCHEMA", s) : i < j

\* a child's SCHEMA is written once for every sync call of the child
SchemaPerChildSync ==
    \A s \in Range(selection) :
        STREAMS[s].parent # "" =>
            Cardinality(Entries("SCHEMA", s)) = Cardinality(Entries("SYNC", s))

\* a completed run that wrote the SCHEMA of a selected child twice
TwoSchemas ==
    /\ opc = "returned"
    /\ ~failed
    /\ stream_is_selected("app_tables")
    /\ Cardinality(Entries("SCHEMA", "app_tables")) = 2

\* a completed run that never synced a selected stream
NeverSynced ==
    /\ opc = "returned"
    /\ ~failed
    /\ upstream.top = <<TRUE, TRUE>>
    /\ stream_is_selected("get_fields")
    /\ Entries("SYNC", "get_fields") = {}

\* the sync calls the loop of sync() made for the stream
DirectSyncs(stream) ==
    {i \in Entries("SYNC", stream) : journal[i].path = <<>>}

RECURSIVE AncestorsOf(_)
AncestorsOf(stream) ==
    IF STREAMS[stream].parent = "" THEN {}
    ELSE {STREAMS[stream].parent} \cup AncestorsOf(STREAMS[stream].parent)

\* C16: the loop of sync() calls the sync of top-level streams only, and of
\* each at most once; when it has gone through the work list, the list
\* holds every ancestor of every selected stream, and, no request having
\* failed, each top-level stream of the list has been synced exactly once.
C16_ParentsOncePerRun ==
    /\ LET direct == {i \in 1..Len(journal) :
                          journal[i].type = "SYNC" /\ journal[i].path = <<>>}
       IN  \A i \in direct :
               /\ STREAMS[journal[i].stream].parent = ""
               /\ \A k \in direct :
                      journal[k].stream = journal[i].stream => k = i
    /\ opc = "returned" =>
           /\ \A s \in Range(selection) :
                  AncestorsOf(s) \subseteq Range(streams_to_sync)
           /\ ~failed =>
                  \A s \in Range(streams_to_sync) :
                      STREAMS[s].parent = "" =>
                          Cardinality(DirectSyncs(s)) = 1

C16_Witness ==
    /\ opc = "returned"
    /\ ~failed
    /\ selection = <<"tables", "events">>
    /\ streams_to_sync = <<"tables", "events", "app_tables", "apps">>
    /\ Cardinality(DirectSyncs("apps")) = 1
    /\ Entries("SYNC", "tables") # {}
    /\ Entries("SYNC", "events") # {}

After(ev, j) == \E i \in (j + 1)..Len(journal) : journal[i] = ev

\* the place of the stream among the attached children of its parent
PlaceOf(stream) ==
    LET cts == child_to_sync[STREAMS[stream].parent]
    IN  CHOOSE k \in 1..Len(cts) : cts[k] = stream

\* C17: a 403 raised in the sync of a child for some parent record does not
\* end the run; in the completed run, after the 403, every child attached
\* after that one has been synced for the same parent record, the parent
\* has fetched its next record if it has one, and the parent's sync has
\* returned.
C17_ForbiddenChildSkipped ==
    \A j \in 1..Len(journal) :
        LET e == journal[j]
            parent == STREAMS[e.stream].parent
            cts == child_to_sync[parent]
            n == e.path[Len(e.path)]
            call == SubSeq(e.path, 1, Len(e.path) - 1)
        IN  (/\ e.type = "RAISE"
             /\ e.arg = "forbidden"
             /\ parent # "") =>
                /\ opc # "raised"
                /\ After(Ev("WARNING", e.stream, e.path, ""), j - 1)
                /\ opc = "returned" =>
                       /\ \A k \in (PlaceOf(e.stream) + 1)..Len(cts) :
                              After(Ev("SYNC", cts[k], e.path, ""), j)
                       /\ n < Len(Feed(parent)) =>
                              After(Ev("FETCH", parent, Append(call, n + 1),
                                       ""), j)
                       /\ After(Ev("RETURN", parent, call, ""), j)

C17_Witness ==
    /\ opc = "returned"
    /\ selection = <<"events", "app_tables">>
    /\ \E j \in 1..Len(journal) :
           /\ journal[j] = Ev("RAISE", "events", <<1>>, "forbidden")
           /\ After(Ev("SYNC", "app_tables", <<1>>, ""), j)
           /\ After(Ev("RECORD", "app_tables", <<1, 2>>, ""), j)
           /\ After(Ev("FETCH", "apps", <<2>>, ""), j)
           /\ After(Ev("SYNC", "events", <<2>>, ""), j)
           /\ After(Ev("RETURN", "apps", <<>>, ""), j)

\* the value of currently_syncing the last STATE message carries
LastMarker ==
    LET st == {i \in 1..Len(journal) : journal[i].type = "STATE"}
    IN  journal[CHOOSE i \in st : \A k \in st : k <= i].arg

\* C18: once a request has raised an error other than a 403 inside a child
\* sync, or any error inside the sync of a top-level stream, sync() has
\* been left by that error: nothing was written or called after it, the
\* rest of the work list was not synced, and currently_syncing still names
\* a stream, in the state and in the last STATE message written.
C18_ErrorsLeaveSync ==
    \A j \in 1..Len(journal) :
        LET e == journal[j]
        IN  (/\ e.type = "RAISE"
             /\ (e.arg # "forbidden" \/ STREAMS[e.stream].parent = "")) =>
                /\ opc = "raised"
                /\ j = Len(journal)
                /\ stack = <<>>
                /\ currently_syncing \in StreamNames
                /\ LastMarker = currently_syncing

C18_Witness ==
    /\ opc = "raised"
    /\ STREAMS = FlatStreams
    /\ selection = <<"apps", "events">>
    /\ index = 1
    /\ Entries("SYNC", "events") = {}
    /\ journal[Len(journal)] = Ev("RAISE", "apps", <<>>, "forbidden")
    /\ Before(Ev("RECORD", "apps", <<1>>, ""), Len(journal))
    /\ upstream.top = <<TRUE, TRUE>>
    /\ currently_syncing = "apps"

\* a run left by an error other than a 403 raised in a grandchild sync
FatalInGrandchild ==
    /\ opc = "raised"
    /\ journal[Len(journal)] = Ev("RAISE", "tables", <<1, 1>>, "fatal")
    /\ currently_syncing = "tables"

\* C19: the sync call the loop of sync() makes for a top-level stream is
\* preceded at once by a STATE message whose currently_syncing is that
\* stream; the return of that call is followed at once by a STATE message
\* without currently_syncing, the key being removed from the state; and when
\* sync() has returned after syncing at least one top-level stream, the
\* state has no currently_syncing key.
C19_MarkerSetAndCleared ==
    /\ \A j \in 1..Len(journal) :
           LET e == journal[j]
           IN  /\ (e.type = "SYNC" /\ e.path = <<>>) =>
                      /\ j > 1
                      /\ journal[j - 1] = Ev("STATE", e.stream, <<>>, e.stream)
               /\ (e.type = "RETURN" /\ e.path = <<>>) =>
                      /\ j < Len(journal)
                      /\ journal[j + 1] = Ev("STATE", e.stream, <<>>, Absent)
                      /\ j + 1 = Len(journal) => currently_syncing = Absent
    /\ (opc = "returned" /\ \E s \in StreamNames : DirectSyncs(s) # {}) =>
           currently_syncing = Absent

C19_Witness ==
    /\ opc = "returned"
    /\ selection = <<"events">>
    /\ currently_syncing = Absent
    /\ \E j \in 1..Len(journal) :
           /\ journal[j] = Ev("RETURN", "apps", <<>>, "")
           /\ Before(Ev("STATE", "apps", <<>>, "apps"), j)
           /\ Before(Ev("STATE", "events", <<2>>, "events"), j)
           /\ journal[j + 1] = Ev("STATE", "apps", <<>>, Absent)

\* sync() returned without syncing a stream: a marker left in the state by
\* an interrupted run is still there
MarkerLeftBehind ==
    /\ opc = "returned"
    /\ journal = <<>>
    /\ currently_syncing = "apps"

Retriable(answer) ==
    \/ answer.error \in NetworkErrors
    \/ answer.error = "" /\ answer.status \in {422, 429, 500, 501, 502, 503}

Succeeds(answer) ==
    answer.error = "" /\ answer.status \in {200, 201, 204} /\ answer.json

\* the error an answer stands for: the network error, or the error class
\* of its status
TypedError(answer) ==
    IF answer.error # "" THEN answer.error ELSE raise_exception(answer.status)

\* C20: __make_request makes at most 5 attempts and a further attempt only
\* after a retriable failure (HTTP 422, 429, 500, 501, 502, 503, a
\* connection error or a timeout), with one sleep before it; when the
\* first k attempts failed retriably and attempt k + 1 succeeded it has
\* returned after k + 1 attempts; when 5 attempts failed retriably it has
\* raised the error of the fifth after 5 attempts and 4 sleeps.
C20_RetriesUpToFive ==
    LET k == Len(tried) - 1
        last == tried[Len(tried)]
        earlier == {tried[i] : i \in 1..k}
    IN  /\ Len(tried) <= max_tries
        /\ tried # <<>> =>
               /\ \A a \in earlier : Retriable(a)
               /\ sleeps = IF outcome.pc = "trying" THEN k + 1 ELSE k
               /\ outcome.pc = "trying" => Retriable(last)
               /\ Succeeds(last) => outcome.pc = "returned"
               /\ (Retriable(last) /\ Len(tried) < max_tries) =>
                      outcome.pc = "trying"
               /\ (Retriable(last) /\ Len(tried) = max_tries) =>
                      /\ outcome.pc = "raised"
                      /\ outcome.error = TypedError(last)
                      /\ sleeps = max_tries - 1

C20_Witness ==
    /\ outcome.pc = "raised"
    /\ outcome.error = "QuickbaseServiceUnavailableError"
    /\ Len(tried) = 5
    /\ sleeps = 4
    /\ tried[1].status = 429
    /\ tried[2].error = "Timeout"
    /\ tried[5].status = 503

\* two retriable failures, then success: returned after three attempts
ReturnedAfterRetries ==
    /\ outcome.pc = "returned"
    /\ Len(tried) = 3
    /\ sleeps = 2
    /\ tried[1].status = 429
    /\ tried[2].status = 429
    /\ tried[3].status = 200

\* an answer that is a terminal HTTP error: a status outside 200, 201, 204
\* whose error class is not retried
Terminal(answer) ==
    /\ answer.error = ""
    /\ answer.status \notin {200, 201, 204}
    /\ answer.status \notin {422, 429, 500, 501, 502, 503}

\* C21: an answer with a terminal status (400, 401, 403, 404, 409, or a
\* status without mapping) is attempted once: it is the last attempt of the
\* call, the call has raised the error class of that status, and no sleep
\* was taken after it, however many retriable failures came before it in
\* the same call.
C21_TerminalRaisesAtOnce ==
    \A i \in 1..Len(tried) :
        Terminal(tried[i]) =>
            /\ i = Len(tried)
            /\ outcome.pc = "raised"
            /\ outcome.error = raise_exception(tried[i].status)
            /\ sleeps = i - 1

\* 429, 503, then 404: raised at the third attempt, after two sleeps
C21_Witness ==
    /\ Len(tried) = 3
    /\ tried[1].status = 429
    /\ tried[2].status = 503
    /\ tried[3].status = 404
    /\ outcome.pc = "raised"
    /\ outcome.error = "QuickbaseNotFoundError"
    /\ sleeps = 2

\* a status without mapping at the first attempt: one attempt, no sleep
UnmappedRaisesAtOnce ==
    /\ Len(tried) = 1
    /\ tried[1].status = 418
    /\ outcome.pc = "raised"
    /\ outcome.error = "QuickbaseError"
    /\ sleeps = 0

\* the statuses ERROR_CODE_EXCEPTION_MAPPING has an entry for
Mapped == {400, 401, 403, 404, 409, 422, 429, 500, 501, 502, 503}

\* C22: raise_for_error raises nothing for 200, 201 and 204 and an error
\* derived from QuickbaseError for every status outside 2xx; the mapped
\* statuses 400, 401, 403, 404, 409, 422, 429, 500, 501, 502 and 503 have
\* pairwise distinct classes, of which exactly those of 422, 429, 500, 501,
\* 502 and 503 derive from QuickbaseBackoffError; a status without mapping
\* raises QuickbaseError itself, which is not retried.  Checked on every
\* HTTP answer a call has met.
C22_TypedErrors ==
    \A i \in 1..Len(tried) :
        tried[i].error = "" =>
            LET st == tried[i].status
                raised == raise_for_error(tried[i])
            IN  /\ st \in {200, 201, 204} => raised = ""
                /\ st \notin 200..299 =>
                       /\ raised # ""
                       /\ issubclass(raised, "QuickbaseError")
                /\ st \in Mapped =>
                       /\ raised = raise_exception(st)
                       /\ raised # "QuickbaseError"
                       /\ \A t \in Mapped \ {st} : raise_exception(t) # raised
                       /\ issubclass(raised, "QuickbaseBackoffError")
                              <=> st \in {422, 429, 500, 501, 502, 503}
                /\ (st \notin Mapped /\ st \notin {200, 201, 204}) =>
                       /\ raised = "QuickbaseError"
                       /\ ~retried(raised)
                /\ (raised # "" /\ i = Len(tried) /\ outcome.pc = "raised") =>
                       outcome.error = raised

\* a 409 answer: the call has raised QuickbaseConflictError
C22_Witness ==
    /\ Len(tried) = 1
    /\ tried[1].error = ""
    /\ tried[1].status = 409
    /\ outcome.pc = "raised"
    /\ outcome.error = "QuickbaseConflictError"

\* a 2xx status other than 200, 201 and 204 raises QuickbaseError as well
AcceptedRaises ==
    /\ Len(tried) = 1
    /\ tried[1].status = 202
    /\ outcome.pc = "raised"
    /\ outcome.error = "QuickbaseError"

\* the parameters of a request of a stream without base parameters
Req(sk, top) == [updated_since |-> None, skip |-> sk, top |-> top]

\* C23: a call of get_records for a single-resource stream issues one
\* request and ends after it, with the offset left at 0, whatever page size
\* is configured.
C23_OneRequestPerResource ==
    api.mode = "single" =>
        /\ Len(requests) <= 1
        /\ skip = 0
        /\ Len(requests) = 1 => gen = "returned"

\* what the code does give: with a page size above 1 (the default 100
\* included) the one-record page is short, the call ends after one request
\* and the offset stays 0
OneRequestAbovePageSizeOne ==
    (api.mode = "single" /\ page_size > 1) =>
        /\ Len(requests) <= 1
        /\ skip = 0
        /\ Len(requests) = 1 => gen = "returned"

OneRequestByDefault ==
    /\ api.mode = "single"
    /\ api.top = None
    /\ ~api.pool[api.n].empty
    /\ requests = <<Req(0, DEFAULT_PAGE_SIZE)>>
    /\ gen = "returned"

\* page_size = 1 and an object with an id: a second request with skip = 1
SecondRequestAtOffset ==
    /\ api.mode = "single"
    /\ api.pool[api.n] = [empty |-> FALSE, obj |-> Rec(1, None)]
    /\ requests = <<Req(0, 1), Req(1, 1)>>
    /\ yielded = <<Rec(1, None)>>
    /\ gen = "returned"

\* page_size = 1 and an object without identity: three requests, the object
\* yielded twice
ResourceYieldedTwice ==
    /\ api.mode = "single"
    /\ requests = <<Req(0, 1), Req(1, 1), Req(2, 1)>>
    /\ yielded = <<Rec(None, None), Rec(None, None)>>
    /\ gen = "returned"

\* the pages of a call one after the other
RECURSIVE Concat(_)
Concat(ss) == IF ss = <<>> THEN <<>> ELSE Head(ss) \o Concat(Tail(ss))

\* s is a subsequence of t: its elements are found in t in the same order
RECURSIVE IsSubseq(_, _)
IsSubseq(s, t) ==
    IF s = <<>> THEN TRUE
    ELSE IF t = <<>> THEN FALSE
    ELSE IF Head(s) = Head(t) THEN IsSubseq(Tail(s), Tail(t))
    ELSE IsSubseq(s, Tail(t))

\* C24: the records yielded by a call are a subsequence of its pages put
\* one after the other in request order; each pass adds to the yielded
\* records, after those of the earlier pages, a subsequence of the page it
\* fetched, in the order of that page.
C24_YieldedInPageOrder ==
    /\ [](IsSubseq(yielded, Concat(pages)))
    /\ [][/\ Len(pages') = Len(pages) + 1
          /\ SubSeq(pages', 1, Len(pages)) = pages
          /\ Len(yielded') >= Len(yielded)
          /\ SubSeq(yielded', 1, Len(yielded)) = yielded
          /\ IsSubseq(SubSeq(yielded', Len(yielded) + 1, Len(yielded')),
                      pages'[Len(pages')])]_vars

\* two pages that share a record: the second page yields only its new
\* records, after those of the first
C24_Witness ==
    /\ pages = <<<<Rec(2, None), Rec(1, None)>>,
                 <<Rec(1, None), Rec(None, None)>>>>
    /\ yielded = <<Rec(2, None), Rec(1, None), Rec(None, None)>>

\* the `updated` of a record is missing (None), empty or no timestamp
Unusable(updated) == updated \in {None, EmptyStr, BadStr}

\* C25: the pass of PseudoIncrementalStream.sync over a record whose
\* `updated` is missing, empty or unparseable writes no message, counts
\* nothing, calls no child sync, leaves the tracked maximum and the state as
\* they are, and goes on to the next record of the generator.
C25_UnusableRecordsSkipped ==
    [][(syncpc = "loop" /\ feed # <<>> /\ Unusable(Head(feed))) =>
           /\ out' = out
           /\ counter' = counter
           /\ runs'[Len(runs)].children = runs[Len(runs)].children
           /\ max_updated_str' = max_updated_str
           /\ max_updated_dt' = max_updated_dt
           /\ state' = state
           /\ syncpc' = "loop"
           /\ feed' = Tail(feed)
           /\ runs'[Len(runs)].fed = Append(runs[Len(runs)].fed, Head(feed))]_vars

\* a record without timestamp, then a newer record: the second one is
\* emitted, has its children synced and becomes the bookmark
C25_Witness ==
    /\ Len(runs) = 1
    /\ runs[1].done
    /\ runs[1].fed = <<BadStr, TsStr(MinTick + MaxSpan)>>
    /\ runs[1].children = <<TsStr(MinTick + MaxSpan)>>
    /\ runs[1].final = TsStr(MinTick + MaxSpan)
    /\ out = <<RecordMsg(PseudoStream, TsStr(MinTick + MaxSpan)),
               StateMsg(state)>>

\* a record with no `updated` at all after an emitted one: the run ends
\* with the bookmark of the emitted one
MissingUpdatedSkipped ==
    /\ Len(runs) = 1
    /\ runs[1].done
    /\ runs[1].fed = <<TsStr(MinTick + MaxSpan), None>>
    /\ runs[1].children = <<TsStr(MinTick + MaxSpan)>>
    /\ runs[1].final = TsStr(MinTick + MaxSpan)
    /\ counter = 1

\* a record with neither an id nor a nested field.id
NoIdentity(record) == record.id = None /\ record.fid = None

\* C26 as stated: every record without identity that was fetched has been
\* yielded.
C26_Original ==
    SelectSeq(yielded, NoIdentity) = SelectSeq(Concat(pages), NoIdentity)

\* the pages whose records went through _process_records_with_dedup: all
\* the pages fetched but the one that triggered the duplicate-page stop
ProcessedPages ==
    IF "warning" \in log THEN SubSeq(pages, 1, Len(pages) - 1) ELSE pages

\* C26 (amended): de-duplication never suppresses a record without
\* identity: the records without identity of every page that was processed
\* are all yielded, in order, as often as they occur, also when an equal
\* record was yielded before; only the page that triggers the
\* duplicate-page stop is dropped as a whole.
C26_NoIdentityNeverDeduplicated ==
    SelectSeq(yielded, NoIdentity)
        = SelectSeq(Concat(ProcessedPages), NoIdentity)

\* the same page of two equal records without identity three times: yielded
\* twice in full, the third page dropped by the duplicate-page stop
C26_Witness ==
    /\ pages = <<<<Rec(None, None), Rec(None, None)>>,
                 <<Rec(None, None), Rec(None, None)>>,
                 <<Rec(None, None), Rec(None, None)>>>>
    /\ yielded = <<Rec(None, None), Rec(None, None),
                   Rec(None, None), Rec(None, None)>>
    /\ gen = "returned"
    /\ "warning" \in log

\* the number of raw records of the first k pages
RECURSIVE RawCount(_)
RawCount(k) == IF k = 0 THEN 0 ELSE RawCount(k - 1) + Len(pages[k])

\* C27: the k-th request of a call carries skip = the number of raw records
\* returned by the requests before it (0 for the first), top = the page
\* size of the config (100 when the config has none) and the entries of
\* self.params; self.params is not changed by the call.
C27_RequestParameters ==
    /\ [](\A k \in 1..Len(requests) :
              /\ requests[k].skip = RawCount(k - 1)
              /\ requests[k].top = IF api.top = None THEN 100 ELSE api.top
              /\ requests[k].updated_since = params)
    /\ [][params' = params]_vars

\* page size 2, a page of two new records, then a page that repeats one of
\* them: the third request asks for skip = 4 with three records yielded
C27_Witness ==
    /\ Len(requests) = 3
    /\ requests[3] = [updated_since |-> 0, skip |-> 4, top |-> 2]
    /\ Len(yielded) = 3
    /\ params = 0

\* no page_size in the config: top = 100
DefaultTopSent ==
    /\ api.top = None
    /\ requests = <<[updated_since |-> 0, skip |-> 0, top |-> 100]>>

\* pages longer than asked for: skip advances by what was returned
SkipFollowsReturnedRecords ==
    /\ page_size = 1
    /\ Len(requests) = 2
    /\ Len(pages[1]) = 2
    /\ requests[2].skip = 2

\* C28: a page that is empty or holds fewer raw records than the page size
\* is the last request of the call: the generator has returned after it,
\* also when the response reports a totalRecords larger than the number of
\* records fetched so far.
C28_ShortPageEndsCall ==
    \A k \in 1..Len(pages) :
        Len(pages[k]) < page_size =>
            /\ k = Len(pages)
            /\ Len(requests) = k
            /\ gen = "returned"

\* a full page, then a short one, with totalRecords far above the three
\* records fetched: the call has ended
C28_Witness ==
    /\ page_size = 2
    /\ api.total = LargeTotal
    /\ Len(pages) = 2
    /\ Len(pages[1]) = 2
    /\ Len(pages[2]) = 1
    /\ Len(yielded) = 3
    /\ gen = "returned"

\* an empty first page ends the call with nothing yielded
EmptyPageEndsCall ==
    /\ pages = <<<<>>>>
    /\ api.total = LargeTotal
    /\ yielded = <<>>
    /\ gen = "returned"

\* the signature of the page fetched before the pass, None before the first
PreviousSignature ==
    IF pages = <<>> THEN NoSig
    ELSE _create_page_signature(pages[Len(pages)])

\* C29: a pass over a non-empty page whose signature equals that of the
\* previous page adds one to the duplicate-page counter, a pass over a
\* non-empty page with another signature sets it to 0; the duplicate-page
\* stop (warning, end of the call) fires exactly when the counter reaches 2,
\* and the page that triggers it yields nothing.
C29_DuplicatePageCounter ==
    [][pages'[Len(pages')] # <<>> =>
          LET sig == _create_page_signature(pages'[Len(pages')])
          IN  /\ last_sig = PreviousSignature
              /\ dup_pages < 2
              /\ sig = PreviousSignature => dup_pages' = dup_pages + 1
              /\ sig # PreviousSignature => dup_pages' = 0
              /\ ("warning" \in log') <=> (dup_pages' = 2)
              /\ dup_pages' = 2 => /\ gen' = "returned"
                                   /\ yielded' = yielded]_vars

\* pages A, A, B, B, B: the counter goes 0, 1, 0, 1, 2 and the fifth page
\* ends the call without being yielded
C29_Witness ==
    /\ Len(pages) = 5
    /\ pages[1] = pages[2]
    /\ pages[3] # pages[2]
    /\ pages[4] = pages[3]
    /\ pages[5] = pages[3]
    /\ dup_pages = 2
    /\ gen = "returned"
    /\ "warning" \in log
    /\ Len(yielded) = 7

\* C30: a request of get_records that ends with an error ends the call
\* with that error: the generator has raised the error of the request, the
\* failed request is the last one of the call (no step follows, at the
\* pagination layer each page is requested once), and the records yielded
\* from the pages before it stay yielded.
C30_RequestErrorPropagates ==
    /\ [](gen = "raised" =>
              /\ outcome.pc = "raised"
              /\ outcome.error \in RequestErrors
              /\ Len(requests) = Len(pages) + 1
              /\ Len(requests) = iteration)
    /\ [][/\ gen # "raised"
          /\ outcome'.pc = "raised" =>
                 /\ gen' = "raised"
                 /\ Len(requests') = Len(requests) + 1
                 /\ pages' = pages
                 /\ yielded' = yielded]_vars

\* page size 1: two pages yielded, the third request raises a 404
C30_Witness ==
    /\ gen = "raised"
    /\ outcome.error = "QuickbaseNotFoundError"
    /\ page_size = 1
    /\ Len(requests) = 3
    /\ requests[3].skip = 2
    /\ yielded = <<Rec(0, None), Rec(1, None)>>

\* the streams of the execution tree under a stream: the stream and what is
\* attached to it, to its children, and so on
RECURSIVE TreeFrom(_, _, _)
TreeFrom(S, cts, depth) ==
    IF depth = 0 THEN S
    ELSE TreeFrom(S \cup UNION {Range(cts[t]) : t \in S}, cts, depth - 1)

Tree(stream, cts) == TreeFrom({stream}, cts, Cardinality(StreamNames))

\* the declared children of a stream that are in the list, as declared
ChildrenInList(stream, sts) ==
    SelectSeq(STREAMS[stream].children, LAMBDA c : c \in Range(sts))

\* C31: when sync() sets a top-level stream up, every stream of its
\* execution tree has attached exactly its declared children that are in
\* streams_to_sync, in declaration order, and every stream of the tree but
\* the top-level one is in that list.
C31_ChildrenAttachedFromList ==
    [][(opc = "loop" /\ opc' = "sync") =>
           LET top == streams_to_sync[index + 1]
           IN  \A t \in Tree(top, child_to_sync') :
                   /\ child_to_sync'[t] = ChildrenInList(t, streams_to_sync)
                   /\ t # top => t \in Range(streams_to_sync)]_vars

\* app_tables selected before events: apps attaches them as it declares
\* them, events first, and roles, which is not in the list, is left out
C31_Witness ==
    /\ selection = <<"app_tables", "events">>
    /\ streams_to_sync = <<"app_tables", "events", "apps">>
    /\ child_to_sync["apps"] = <<"events", "app_tables">>
    /\ child_to_sync["app_tables"] = <<>>
    /\ opc = "sync"

\* tables selected alone: apps attaches app_tables, which attaches tables
AttachedRecursively ==
    /\ selection = <<"tables">>
    /\ child_to_sync["apps"] = <<"app_tables">>
    /\ child_to_sync["app_tables"] = <<"tables">>
    /\ opc = "sync"

\* ------------------------------------------------------------------------
\* ParentBaseStream: the bookmark of a parent with attached children.
\* The parent is IncStream; its children keep their share of the parent's
\* bookmark under bookmark_key.
\* ------------------------------------------------------------------------
py_min(a, b) == IF b < a THEN b ELSE a

\* the for loop of ParentBaseStream.get_bookmark, from the i-th child on
RECURSIVE min_parent_bookmark_from(_, _, _, _)
min_parent_bookmark_from(st, children, i, min_parent_bookmark) ==
    IF i > Len(children) THEN min_parent_bookmark
    ELSE LET child_bookmark == get_bookmark(st, children[i], bookmark_key)
         IN  min_parent_bookmark_from(
                 st, children, i + 1,
                 IF Truthy(min_parent_bookmark)
                 THEN py_min(min_parent_bookmark, child_bookmark)
                 ELSE child_bookmark)

\* ParentBaseStream.get_bookmark(state, stream)
ParentBaseStream_get_bookmark(st, stream, children) ==
    min_parent_bookmark_from(
        st, children, 1,
        IF config.selected THEN get_bookmark(st, stream, "") ELSE None)

\* the for loop of ParentBaseStream.write_bookmark, from the i-th child on
RECURSIVE write_children_from(_, _, _, _)
write_children_from(st, children, i, value) ==
    IF i > Len(children) THEN st
    ELSE write_children_from(
             write_bookmark(st, children[i], bookmark_key, value),
             children, i + 1, value)

\* mutant: the children's keys are left alone
ParentBaseStream_write_bookmark_own(st, stream, children, value) ==
    IF config.selected THEN write_bookmark(st, stream, "", value) ELSE st

\* ParentBaseStream.write_bookmark(state, stream, value=value)
ParentBaseStream_write_bookmark(st, stream, children, value) ==
    write_children_from(
        IF config.selected THEN write_bookmark(st, stream, "", value) ELSE st,
        children, 1, value)

ParentChildren == {<<>>, <<"stream_2">>, <<"stream_2", "stream_3">>}
ParentPairs ==
    {<<IncStream, "updated_at">>, <<"stream_2", bookmark_key>>,
     <<"stream_3", bookmark_key>>}

InitParent ==
    /\ NoPagination
    /\ NoRequest
    /\ STREAMS = RegisteredStreams
    /\ selection = <<>>
    /\ upstream = [top |-> <<>>, sub |-> <<>>]
    /\ streams_to_sync = <<>>
    /\ index = 0
    /\ \E children \in ParentChildren :
           child_to_sync = [n \in StreamNames \cup {IncStream} |->
                               IF n = IncStream THEN children ELSE <<>>]
    /\ stack = <<>>
    /\ opc = "idle"
    /\ currently_syncing = Absent
    /\ failed = FALSE
    /\ journal = <<>>
    /\ config \in [start_date : Values, selected : BOOLEAN,
                   replication_keys : {<<"updated_at">>}]
    /\ \E b \in [ParentPairs -> {None} \cup Values] :
           state = [bookmarks |->
                       [p \in BmStreams \X BmKeys |->
                           IF p \in DOMAIN b THEN b[p] ELSE None]]
    /\ out = <<>>
    /\ syncpc = "idle"
    /\ feed = <<>>
    /\ runs = <<>>
    /\ calls = [n |-> 0, stream |-> "", key |-> "", value |-> None]
    /\ bookmark_date = None
    /\ current_max_bookmark_date = None
    /\ params = None
    /\ last_bookmark_dt = None
    /\ max_updated_str = None
    /\ max_updated_dt = None
    /\ counter = 0

\* bookmark_date = self.get_bookmark(state, self.tap_stream_id)
ParentGetBookmark ==
    /\ calls.n < MaxCalls
    /\ bookmark_date' =
           ParentBaseStream_get_bookmark(state, IncStream,
                                         child_to_sync[IncStream])
    /\ calls' = [n |-> calls.n + 1, stream |-> IncStream, key |-> "get",
                 value |-> None]
    /\ UNCHANGED <<config, state, out, syncpc, feed, runs,
                   current_max_bookmark_date, params, last_bookmark_dt,
                   max_updated_str, max_updated_dt, counter>>
    /\ UNCHANGED <<pvars, ovars, rvars>>

\* self.write_bookmark(state, self.tap_stream_id, value=value)
ParentWriteBookmark(value) ==
    /\ calls.n < MaxCalls
    /\ state' = ParentBaseStream_write_bookmark(state, IncStream,
                                                child_to_sync[IncStream],
                                                value)
    /\ calls' = [n |-> calls.n + 1, stream |-> IncStream, key |-> "write",
                 value |-> value]
    /\ UNCHANGED <<config, out, syncpc, feed, runs, bookmark_date,
                   current_max_bookmark_date, params, last_bookmark_dt,
                   max_updated_str, max_updated_dt, counter>>
    /\ UNCHANGED <<pvars, ovars, rvars>>

ParentWrite == \E value \in Values : ParentWriteBookmark(value)

NextParent == ParentGetBookmark \/ ParentWrite

SpecParent == InitParent /\ [][NextParent]_vars

\* ------------------------------------------------------------------------
\* Properties of the parent bookmark (C32, C33)
\* ------------------------------------------------------------------------
SetMin(S) == CHOOSE x \in S : \A y \in S : x <= y

\* the bookmarks ParentBaseStream.get_bookmark looks at, each read with the
\* start_date default: the children's, and the parent's own when selected
ChildBookmarks(st) ==
    {get_bookmark(st, child_to_sync[IncStream][i], bookmark_key) :
        i \in 1..Len(child_to_sync[IncStream])}

ConsideredBookmarks(st) ==
    ChildBookmarks(st) \cup
    (IF config.selected THEN {get_bookmark(st, IncStream, "")} ELSE {})

ParentRead == calls'.n = calls.n + 1 /\ calls'.key = "get"

\* C32: ParentBaseStream.get_bookmark returns the minimum over the parent's
\* own bookmark (only when the parent is selected) and the bookmark of every
\* attached child under "{parent_id}_{parent_cursor_field}", each read as
\* start_date when absent; the returned value is never greater than any
\* attached child's bookmark.
C32_MinimumOverChildren ==
    [][(ParentRead /\ ConsideredBookmarks(state) # {}) =>
           /\ bookmark_date' = SetMin(ConsideredBookmarks(state))
           /\ \A b \in ChildBookmarks(state) : bookmark_date' <= b]_vars

\* a read that returned more than an attached child's bookmark
ReturnedAboveChild ==
    /\ calls.key = "get"
    /\ ~config.selected
    /\ \E b \in ChildBookmarks(state) : bookmark_date > b

\* a read that returned more than the selected parent's own bookmark
ReturnedAboveOwn ==
    /\ calls.key = "get"
    /\ config.selected
    /\ bookmark_date > get_bookmark(state, IncStream, "")

\* what holds: when no bookmark read before the last one is empty (0 stands
\* for the empty cursor value), the result is the minimum
MinimumOfNonEmpty ==
    [][(ParentRead /\ ConsideredBookmarks(state) # {}
          /\ 0 \notin ConsideredBookmarks(state)) =>
           bookmark_date' = SetMin(ConsideredBookmarks(state))]_vars

\* a parent that is not selected and has no child attached reads None
NothingToRead ==
    [][(ParentRead /\ ConsideredBookmarks(state) = {}) =>
           bookmark_date' = None]_vars

ParentWritten == calls'.n = calls.n + 1 /\ calls'.key = "write"

\* the keys a write of the selected parent addresses: its own and the
\* derived key of every attached child
WrittenPairs ==
    {<<IncStream, config.replication_keys[1]>>} \cup
    {<<child_to_sync[IncStream][i], bookmark_key>> :
        i \in 1..Len(child_to_sync[IncStream])}

\* the value a key holds for a reader: start_date when nothing is stored
Held(st, p) == singer_get_bookmark(st, p[1], p[2], config.start_date)

\* C33 as claimed: after ParentBaseStream.write_bookmark(state, stream,
\* value=v) on a selected parent, the parent's own key and the derived key
\* of every attached child hold the same value.
C33_Original ==
    [][(ParentWritten /\ config.selected) =>
           \A p, q \in WrittenPairs :
               state'.bookmarks[p] = state'.bookmarks[q]]_vars

\* C33 as amended: after ParentBaseStream.write_bookmark(state, stream,
\* value=v) on a selected parent, the parent's own key and the derived key
\* of every attached child each hold the larger of v and what the key held
\* before (start_date when nothing was stored); they all hold v, hence the
\* same value, when v is not below any of them, and no other bookmark is
\* touched.
C33_EachKeyAdvanced ==
    [][(ParentWritten /\ config.selected) =>
           /\ \A p \in WrittenPairs :
                  state'.bookmarks[p] = SetMax({calls'.value, Held(state, p)})
           /\ (\A p \in WrittenPairs : calls'.value >= Held(state, p)) =>
                  \A p \in WrittenPairs : state'.bookmarks[p] = calls'.value
           /\ \A q \in DOMAIN state.bookmarks \ WrittenPairs :
                  state'.bookmarks[q] = state.bookmarks[q]]_vars

\* a write on a selected parent with two children that left one value
\* under the three keys
C33_Witness ==
    /\ calls.key = "write"
    /\ config.selected
    /\ Len(child_to_sync[IncStream]) = 2
    /\ calls.value > config.start_date
    /\ \A p \in WrittenPairs : state.bookmarks[p] = calls.value

\* a write on a selected parent that left its own key above a child's
KeysApart ==
    /\ calls.key = "write"
    /\ config.selected
    /\ child_to_sync[IncStream] # <<>>
    /\ state.bookmarks[<<IncStream, "updated_at">>] >
           state.bookmarks[<<child_to_sync[IncStream][1], bookmark_key>>]

\* a parent that is not selected writes the children's keys only
UnselectedParentKeepsOwnKey ==
    [][(ParentWritten /\ ~config.selected) =>
           /\ state'.bookmarks[<<IncStream, "updated_at">>] =
                  state.bookmarks[<<IncStream, "updated_at">>]
           /\ \A p \in WrittenPairs \ {<<IncStream, "updated_at">>} :
                  state'.bookmarks[p] =
                      SetMax({calls'.value, Held(state, p)})]_vars

\* ------------------------------------------------------------------------
\* ChildBaseStream: an incremental stream that sync_child_streams invokes
\* once per parent record.  The instance attribute bookmark_value is kept
\* with the instance's other attributes in config; the child is IncStream.
\* ------------------------------------------------------------------------

\* ChildBaseStream.get_bookmark: the value it returns, which is also the
\* value self.bookmark_value holds afterwards
ChildBaseStream_get_bookmark(st, stream, bookmark_value) ==
    IF ~Truthy(bookmark_value) THEN get_bookmark(st, stream, "")
    ELSE bookmark_value

InitChild ==
    /\ NoPagination
    /\ NoOrchestration
    /\ NoRequest
    /\ config \in [start_date : Values, selected : BOOLEAN,
                   replication_keys : {<<"updated_at">>},
                   bookmark_value : {None}]
    /\ \E b \in {None} \cup Values :
           state = singer_write_bookmark(EmptyState, IncStream,
                                         "updated_at", b)
    /\ out = <<>>
    /\ syncpc = "idle"
    /\ feed = <<>>
    /\ runs = <<>>
    /\ calls = [n |-> 0, stream |-> "", key |-> "", value |-> None]
    /\ bookmark_date = None
    /\ current_max_bookmark_date = None
    /\ params = None
    /\ last_bookmark_dt = None
    /\ max_updated_str = None
    /\ max_updated_dt = None
    /\ counter = 0

\* IncrementalStream.sync of the child up to the for loop, for one parent
\* record; f is what get_records yields under that parent record
ChildSyncStart(f) ==
    /\ syncpc \in {"idle", "done"}
    /\ Len(runs) < MaxRuns
    /\ LET bm == ChildBaseStream_get_bookmark(state, IncStream,
                                              config.bookmark_value)
       IN  /\ config' = [config EXCEPT !.bookmark_value = bm]
           /\ bookmark_date' = bm
           /\ current_max_bookmark_date' = bm
           /\ params' = bm
           /\ runs' = Append(runs, NewRun(bm, f))
    /\ feed' = f
    /\ counter' = 0
    /\ syncpc' = "loop"
    /\ UNCHANGED <<state, out, calls, last_bookmark_dt, max_updated_str,
                   max_updated_dt>>

\* the first parent record has up to MaxFeed child records, a later one
\* at most one
ChildStart ==
    /\ \E f \in SeqsUpTo(Values, IF runs = <<>> THEN MaxFeed ELSE 1) :
           ChildSyncStart(f)
    /\ UNCHANGED <<pvars, ovars, rvars>>

NextChild == ChildStart \/ IncRecord \/ IncFinish

SpecChild == InitChild /\ [][NextChild]_vars

\* ------------------------------------------------------------------------
\* Properties of the child bookmark (C34)
\* ------------------------------------------------------------------------
ChildInvoked == Len(runs') = Len(runs) + 1

\* C34: a ChildBaseStream instance resolves its bookmark once: the value
\* read at its first sync invocation is the filter threshold and the
\* updated_since parameter of every later invocation of the run, although
\* the completion of each invocation writes a possibly larger bookmark.
C34_BookmarkResolvedOnce ==
    /\ [][(ChildInvoked /\ runs # <<>>) =>
              /\ bookmark_date' = runs[1].bookmark
              /\ params' = runs[1].bookmark]_vars
    /\ [](\A r \in 1..Len(runs) :
              \A c \in Range(RunRecords(IncStream, r)) :
                  c >= runs[1].bookmark)
    /\ [][(syncpc = "loop" /\ syncpc' = "done") =>
              state'.bookmarks[<<IncStream, "updated_at">>] >=
                  runs[1].bookmark]_vars

\* a second invocation that filters by the bookmark the first one wrote
ThresholdMoved ==
    /\ Len(runs) = 2
    /\ runs[1].done
    /\ runs[1].bookmark = 0
    /\ runs[2].bookmark = 2
    /\ runs[2].fed = <<1>>
    /\ runs[2].done
    /\ config.selected
    /\ RunRecords(IncStream, 2) = <<>>

\* what holds: a first value that is not empty (0 stands for the empty
\* cursor value) is kept for every later invocation
NonEmptyResolvedOnce ==
    [][(ChildInvoked /\ runs # <<>> /\ runs[1].bookmark # 0) =>
           /\ bookmark_date' = runs[1].bookmark
           /\ params' = runs[1].bookmark
           /\ config'.bookmark_value = runs[1].bookmark]_vars

\* a later invocation that kept the first value below the stored bookmark
KeptBelowStored ==
    /\ Len(runs) = 2
    /\ runs[1].done
    /\ runs[1].bookmark = 1
    /\ runs[1].final = 2
    /\ bookmark_date = 1
    /\ RunRecords(IncStream, 2) = <<1>>

\* ------------------------------------------------------------------------
\* Properties of the child syncs per parent record (C35)
\* ------------------------------------------------------------------------
\* the n-th record get_records yields for the stream passes its filter
PassesFilter(stream, n) == STREAMS[stream].kind = "full" \/ Feed(stream)[n]

\* the sync calls of the child made for the parent record at path p
SyncsFor(child, p) == {j \in Entries("SYNC", child) : journal[j].path = p}

\* what the journal holds of the descendants of the stream under its
\* record at path p
Below(stream, p) ==
    {j \in 1..Len(journal) :
        /\ stream \in AncestorsOf(journal[j].stream)
        /\ Len(journal[j].path) >= Len(p)
        /\ SubSeq(journal[j].path, 1, Len(p)) = p}

\* the path of the parent record an entry of a child stream belongs to
ParentRecordOf(e) ==
    IF e.type \in {"FETCH", "RECORD"}
    THEN SubSeq(e.path, 1, Len(e.path) - 1)
    ELSE e.path

\* the records of the call of e.stream that the for loop has left behind
\* when it writes e: the one before the record fetched, or all of them
\* when the call returns
LeftBehind(e) ==
    IF e.type = "FETCH"
    THEN {e.path[Len(e.path)] - 1} \ {0}
    ELSE IF e.type = "RETURN" THEN 1..Len(Feed(e.stream))
    ELSE {}

\* C35: the attached children of a stream are synced exactly once for each
\* record of the stream that passes its filter (every record of a
\* FULL_TABLE stream), whether or not the stream is selected; for a record
\* that is filtered out no child sync is made and nothing of a child is
\* fetched or written.
C35_ChildrenOncePerPassingRecord ==
    [][\A k \in (Len(journal) + 1)..Len(journal') :
           LET e == journal'[k]
               parent == STREAMS[e.stream].parent
               pr == ParentRecordOf(e)
               own == ParentRecordOf([e EXCEPT !.type = "FETCH"])
           IN  /\ (parent # "" /\ pr # <<>>) =>
                      /\ PassesFilter(parent, pr[Len(pr)])
                      /\ e.stream \in Range(child_to_sync[parent])
               /\ (e.type = "SYNC" /\ e.path # <<>>) =>
                      \A j \in 1..Len(journal) : journal[j] # e
               /\ \A n \in LeftBehind(e) :
                      LET r == Append(IF e.type = "FETCH" THEN own
                                      ELSE e.path, n)
                      IN  \A c \in Range(child_to_sync[e.stream]) :
                              Cardinality({j \in 1..Len(journal') :
                                              journal'[j] =
                                                  Ev("SYNC", c, r, "")}) =
                                  IF PassesFilter(e.stream, n) THEN 1 ELSE 0
      ]_vars

\* apps is synced for app_tables only: its first record is filtered out,
\* its second passes; nothing is written for apps, and app_tables is synced
\* once, under the second record
C35_Witness ==
    /\ opc = "returned"
    /\ ~failed
    /\ STREAMS = RegisteredStreams
    /\ selection = <<"app_tables">>
    /\ upstream.top = <<FALSE, TRUE>>
    /\ Entries("RECORD", "apps") = {}
    /\ Cardinality(Entries("SYNC", "app_tables")) = 1
    /\ SyncsFor("app_tables", <<2>>) # {}
    /\ Below("apps", <<1>>) = {}
    /\ Cardinality(Entries("RECORD", "app_tables")) = 1

\* the for loop of the running sync call took one record
TookRecord ==
    /\ syncpc = "loop"
    /\ Len(runs') = Len(runs)
    /\ Len(runs'[Len(runs)].fed) = Len(runs[Len(runs)].fed) + 1

\* sync_child_streams was called for that record
ChildrenCalled ==
    runs'[Len(runs)].children = Append(runs[Len(runs)].children, Head(feed))

ChildrenNotCalled == runs'[Len(runs)].children = runs[Len(runs)].children

\* INCREMENTAL: sync_child_streams is called for the records at or above
\* the bookmark read, selected or not, and for no other
IncChildrenFromBookmark ==
    [][TookRecord =>
           IF Head(feed) >= bookmark_date THEN ChildrenCalled
           ELSE ChildrenNotCalled]_vars

\* pseudo-incremental: for the records whose timestamp parses and is later
\* than the threshold
PseudoChildrenAboveThreshold ==
    [][TookRecord =>
           IF /\ NonEmpty(Head(feed))
              /\ Head(feed) # BadStr
              /\ Head(feed) - 2 > last_bookmark_dt
           THEN ChildrenCalled
           ELSE ChildrenNotCalled]_vars

\* FULL_TABLE: for every record
FullChildrenAlways == [][TookRecord => ChildrenCalled]_vars

\* ------------------------------------------------------------------------
\* Properties of the reachability of registered streams (C36)
\* ------------------------------------------------------------------------
\* every record of every get_records call passes, and there is one
EveryRecordPasses ==
    /\ upstream.top # <<>>
    /\ \A i \in 1..Len(upstream.top) : upstream.top[i]
    /\ upstream.sub # <<>>
    /\ \A i \in 1..Len(upstream.sub) : upstream.sub[i]

\* every registered stream that names a parent is among that parent's
\* declared children
EveryChildDeclared ==
    \A s \in DOMAIN STREAMS :
        STREAMS[s].parent # "" =>
            s \in Range(STREAMS[STREAMS[s].parent].children)

\* C36: for every stream registered in STREAMS: when it is selected and each
\* of its ancestors yields at least one record that passes its filter, its
\* sync is invoked at least once during the run.  (The claim restates this
\* as EveryChildDeclared: every registered stream that names a parent is
\* listed in that parent's children.)
C36_SelectedStreamsSynced ==
    (opc = "returned" /\ ~failed /\ EveryRecordPasses) =>
        \A s \in Range(selection) : Entries("SYNC", s) # {}

\* a completed run over passing records in which the parent named by a
\* selected stream was synced and the stream itself was not
ParentSyncedChildNot ==
    /\ opc = "returned"
    /\ ~failed
    /\ EveryRecordPasses
    /\ selection = <<"get_fields">>
    /\ streams_to_sync = <<"get_fields", "fields", "app_tables", "apps">>
    /\ Entries("SYNC", "fields") # {}
    /\ Entries("FETCH", "fields") # {}
    /\ child_to_sync["fields"] = <<>>
    /\ Entries("SYNC", "get_fields") = {}

\* a completed run over passing records in which a selected stream was not
\* synced although its parents declare it: its top-level ancestor came
\* first in the catalog, before the parent in between was on the work list
SkippedByOrder ==
    /\ opc = "returned"
    /\ ~failed
    /\ EveryRecordPasses
    /\ selection = <<"apps", "tables">>
    /\ streams_to_sync = <<"apps", "tables", "app_tables">>
    /\ Entries("RECORD", "apps") # {}
    /\ child_to_sync["apps"] = <<>>
    /\ Entries("SYNC", "tables") = {}

\* what holds: a selected stream is synced when every stream on its chain
\* of parents declares the next one as a child and the parents between it
\* and its top-level ancestor are selected too
DeclaredStreamsSynced ==
    (opc = "returned" /\ ~failed /\ EveryRecordPasses) =>
        \A s \in Range(selection) :
            (\A t \in {s} \cup AncestorsOf(s) :
                 STREAMS[t].parent # "" =>
                     /\ t \in Range(STREAMS[STREAMS[t].parent].children)
                     /\ t \in Range(selection)) =>
                Entries("SYNC", s) # {}

\* ------------------------------------------------------------------------
\* IncrementalStream.sync left by an error
\* ------------------------------------------------------------------------
\* mutant: the bookmark is written on the way out, as a finally would
state_when_raised_finally(st, max_date) ==
    write_bookmark(st, IncStream, "", max_date)

\* the state when an error leaves the for loop of IncrementalStream.sync:
\* no handler and no finally stands between the loop and the caller, so
\* write_bookmark is not reached
state_when_raised(st, max_date) == st

\* an error leaves the for loop: the request of get_records raised when the
\* loop asked for the next record, or sync_child_streams raised for the
\* record that has just passed the filter
IncSyncRaise(cause) ==
    /\ syncpc = "loop"
    /\ cause \in {"request", "child"}
    /\ cause = "child" =>
           LET fed == runs[Len(runs)].fed
           IN  /\ fed # <<>>
               /\ passes_bookmark(fed[Len(fed)], bookmark_date)
    /\ state' = state_when_raised(state, current_max_bookmark_date)
    /\ syncpc' = "raised"
    /\ calls' = [calls EXCEPT !.key = cause]
    /\ UNCHANGED <<config, out, feed, runs, bookmark_date,
                   current_max_bookmark_date, params, last_bookmark_dt,
                   max_updated_str, max_updated_dt, counter>>

\* the next run of the tap calls sync again, on the state the failed run
\* left
IncSyncRestart(f) ==
    /\ syncpc = "raised"
    /\ Len(runs) < MaxRuns
    /\ f = runs[1].input
    /\ LET bm == get_bookmark(state, IncStream, "")
       IN  /\ bookmark_date' = bm
           /\ current_max_bookmark_date' = bm
           /\ params' = bm
           /\ runs' = Append(runs, NewRun(bm, f))
    /\ feed' = f
    /\ counter' = 0
    /\ syncpc' = "loop"
    /\ UNCHANGED <<config, state, out, calls, last_bookmark_dt,
                   max_updated_str, max_updated_dt>>

IncRaise ==
    /\ \E cause \in {"request", "child"} : IncSyncRaise(cause)
    /\ UNCHANGED <<pvars, ovars, rvars>>

IncRestart ==
    /\ \E f \in SeqsUpTo(Values, MaxFeed) : IncSyncRestart(f)
    /\ UNCHANGED <<pvars, ovars, rvars>>

NextInterrupted == IncStart \/ IncRecord \/ IncFinish \/ IncRaise \/ IncRestart

SpecInterrupted == InitIncremental /\ [][NextInterrupted]_vars

\* ------------------------------------------------------------------------
\* Properties of the bookmark of an interrupted sync (C37)
\* ------------------------------------------------------------------------
StoredBookmark(st) == st.bookmarks[<<IncStream, "updated_at">>]

\* C37: IncrementalStream.sync modifies the bookmark of its stream only when
\* the record loop has completed normally; when a page request or a child
\* sync raises out of the loop, the bookmark is left as it was before the
\* call.
C37_BookmarkOnlyOnCompletion ==
    /\ [][state' # state =>
              (syncpc = "loop" /\ feed = <<>> /\ syncpc' = "done")]_vars
    /\ [][syncpc' = "raised" => state' = state]_vars
    /\ [](syncpc \in {"loop", "raised"} =>
              get_bookmark(state, IncStream, "") =
                  runs[Len(runs)].bookmark)

\* a call that wrote a record above the bookmark and was then left by the
\* error of a child sync: the stored bookmark is the one it read
C37_Witness ==
    /\ syncpc = "raised"
    /\ calls.key = "child"
    /\ config.selected
    /\ Len(runs) = 1
    /\ runs[1].bookmark = 1
    /\ runs[1].fed = <<2>>
    /\ RunRecords(IncStream, 1) = <<2>>
    /\ current_max_bookmark_date = 2
    /\ StoredBookmark(state) = 1

\* the run after a failed one reads the same bookmark and writes the
\* records of the failed run again
RecordsWrittenAgain ==
    /\ Len(runs) = 2
    /\ ~runs[1].done
    /\ runs[2].done
    /\ runs[1].bookmark = runs[2].bookmark
    /\ RunRecords(IncStream, 1) = <<2>>
    /\ RunRecords(IncStream, 2) = <<2>>
    /\ StoredBookmark(state) = 2

\* under sync(): a sync call that a request error left wrote no bookmark,
\* whether sync_child_streams swallowed the error (403 of a child) or not,
\* and every bookmark written is followed at once by the return of its call
RaisedCallsWriteNoBookmark ==
    \A j \in 1..Len(journal) :
        LET e == journal[j]
        IN  /\ e.type = "RAISE" =>
                   \A i \in 1..Len(journal) :
                       journal[i] # Ev("BOOKMARK", e.stream, e.path, "")
            /\ (e.type = "BOOKMARK"
                  /\ STREAMS[e.stream].kind = "incremental") =>
                   /\ j < Len(journal)
                   /\ journal[j + 1] = Ev("RETURN", e.stream, e.path, "")

\* a 403 of tables under an app_tables record was swallowed: the run went
\* on and returned, and that tables call wrote no bookmark
SwallowedWithoutBookmark ==
    /\ opc = "returned"
    /\ failed
    /\ \E j \in 1..Len(journal) :
           /\ journal[j] = Ev("RAISE", "tables", <<1, 1>>, "forbidden")
           /\ \A i \in 1..Len(journal) :
                  journal[i] # Ev("BOOKMARK", "tables", <<1, 1>>, "")
    /\ \E i \in 1..Len(journal) :
           journal[i] = Ev("BOOKMARK", "app_tables", <<1>>, "")

\* ------------------------------------------------------------------------
\* Properties of the streams that are synced without being selected (C38)
\* ------------------------------------------------------------------------
Unselected(stream) == stream \notin Range(selection)

\* C38: no RECORD and no SCHEMA message is ever written for a stream that is
\* not selected, also when it is synced as an auto-included parent; its
\* attached children are still synced for its passing records, and the
\* call of an incremental parent still writes its bookmark before it
\* returns.
C38_UnselectedWritesNothing ==
    [][\A k \in (Len(journal) + 1)..Len(journal') :
           LET e == journal'[k]
           IN  /\ e.type \in {"RECORD", "SCHEMA"} => ~Unselected(e.stream)
               /\ (e.type = "RETURN" /\ Unselected(e.stream)) =>
                      /\ STREAMS[e.stream].kind = "incremental" =>
                             journal'[k - 1] =
                                 Ev("BOOKMARK", e.stream, e.path, "")
                      /\ \A n \in 1..Len(Feed(e.stream)) :
                             PassesFilter(e.stream, n) =>
                                 \A c \in Range(child_to_sync[e.stream]) :
                                     \E j \in 1..k :
                                         journal'[j] =
                                             Ev("SYNC", c,
                                                Append(e.path, n), "")
      ]_vars

\* only tables is selected: apps and app_tables are synced as its parents
\* and write no SCHEMA and no RECORD; tables is synced and writes records,
\* and both parents write their bookmark
C38_Witness ==
    /\ opc = "returned"
    /\ ~failed
    /\ STREAMS = RegisteredStreams
    /\ selection = <<"tables">>
    /\ Entries("SYNC", "apps") # {}
    /\ Entries("SYNC", "app_tables") # {}
    /\ \A s \in {"apps", "app_tables"} :
           Entries("RECORD", s) \cup Entries("SCHEMA", s) = {}
    /\ Entries("RECORD", "tables") # {}
    /\ Entries("BOOKMARK", "app_tables") # {}
    /\ Entries("BOOKMARK", "apps") # {}

\* on the detailed incremental sync: a stream that is not selected writes
\* nothing, and its completed call leaves the largest cursor that passed
UnselectedIncrementalAdvances ==
    ~config.selected =>
        /\ out = <<>>
        /\ \A r \in 1..Len(runs) :
               runs[r].done =>
                   runs[r].final =
                       SetMax({runs[r].bookmark} \cup
                              {c \in Range(runs[r].fed) :
                                  c >= runs[r].bookmark})

\* an unselected incremental stream whose bookmark went from 0 to 2
UnselectedAdvanced ==
    /\ ~config.selected
    /\ Len(runs) = 1
    /\ runs[1].done
    /\ runs[1].bookmark = 0
    /\ StoredBookmark(state) = 2
    /\ runs[1].children = <<2>>

\* an unselected pseudo-incremental stream that wrote no record and stored
\* a bookmark where none was
PseudoUnselectedAdvanced ==
    /\ ~config.selected
    /\ Len(runs) = 1
    /\ runs[1].done
    /\ runs[1].bookmark = None
    /\ runs[1].children # <<>>
    /\ \A i \in 1..Len(out) : out[i].type # "RECORD"
    /\ singer_get_bookmark(state, PseudoStream, bookmark_field, None) # None

\* ------------------------------------------------------------------------
\* Properties of currently_syncing during the sync of a top-level stream
\* (C39)
\* ------------------------------------------------------------------------
\* the top-level stream whose sync is running in this step
Running == IF stack # <<>> THEN stack[1].stream ELSE stack'[1].stream

\* the start of the running top-level sync: the last SYNC entry of a
\* top-level stream before entry k of the new journal
TopStartBefore(k) ==
    LET tops == {j \in 1..(k - 1) :
                    journal'[j].type = "SYNC" /\ journal'[j].path = <<>>}
    IN  CHOOSE j \in tops : \A i \in tops : i <= j

\* the child syncs started since, before entry k
ChildStartedBefore(k) ==
    {j \in (TopStartBefore(k) + 1)..(k - 1) : journal'[j].type = "SYNC"}

\* the stream is the top-level stream, or a descendant of it that is
\* attached, as is every stream between them, after this step
AttachedBelow(stream, top) ==
    \/ stream = top
    \/ /\ stream \in StreamNames
       /\ top \in AncestorsOf(stream)
       /\ \A t \in {stream} \cup (AncestorsOf(stream) \ {top}) :
              t \in Range(child_to_sync'[STREAMS[t].parent])

\* entry k is the STATE message sync() writes after the top-level sync has
\* returned
Finishing(k) == stack' = <<>> /\ k = Len(journal')

\* C39: every STATE message written between the start and the finish of the
\* sync of a top-level stream S carries a currently_syncing that is S or an
\* attached descendant of S, never an absent or empty one; once a child
\* sync has started it names the child started last, and it is not set
\* back to S before S finishes.
C39_MarkerDuringSync ==
    [][(stack # <<>> \/ stack' # <<>>) =>
           \A k \in (Len(journal) + 1)..Len(journal') :
               (journal'[k].type = "STATE" /\ ~Finishing(k)) =>
                   LET marker == journal'[k].arg
                       started == ChildStartedBefore(k)
                       about == /\ k < Len(journal')
                                /\ journal'[k + 1].type = "SYNC"
                   IN  /\ marker \notin {Absent, NoneName}
                       /\ AttachedBelow(marker, Running)
                       /\ about => marker = journal'[k + 1].stream
                       /\ (~about /\ started = {}) => marker = Running
                       /\ (~about /\ started # {}) =>
                              /\ marker # Running
                              /\ marker =
                                     journal'[CHOOSE j \in started :
                                                  \A i \in started : i <= j
                                             ].stream
      ]_vars

\* apps has written its bookmark after app_tables and tables were synced
\* under its record: the STATE message of the bookmark names tables, and
\* the one after the return of apps carries no marker
C39_Witness ==
    /\ stack = <<>>
    /\ LET n == Len(journal)
       IN  /\ n > 3
           /\ journal[n] = Ev("STATE", "apps", <<>>, Absent)
           /\ journal[n - 1] = Ev("RETURN", "apps", <<>>, "")
           /\ journal[n - 2] = Ev("STATE", "apps", <<>>, "tables")
           /\ journal[n - 3] = Ev("BOOKMARK", "apps", <<>>, "")
    /\ currently_syncing = Absent

\* ------------------------------------------------------------------------
\* write_bookmark on a state without bookmarks (C40)
\* ------------------------------------------------------------------------
InitFresh ==
    /\ InitBookmark
    /\ state = EmptyState

SpecFresh == InitFresh /\ [][NextBookmark]_vars

\* C40: when no bookmark is stored for (stream, key), a call
\* IncrementalStream.write_bookmark(value=v) stores max(start_date, v); a
\* bookmark written on a state that held none is therefore never below
\* start_date, whatever sequence of values is written.
C40_NeverBelowStartDate ==
    /\ [][calls'.n = calls.n + 1 =>
              LET k == AddressedKey(calls'.key)
                  p == <<calls'.stream, k>>
              IN  (k # "" /\ state.bookmarks[p] = None) =>
                      state'.bookmarks[p] =
                          SetMax({config.start_date, calls'.value})]_vars
    /\ [](\A p \in DOMAIN state.bookmarks :
              state.bookmarks[p] # None =>
                  state.bookmarks[p] >= config.start_date)

\* a first write below start_date stored start_date, and a later write
\* above it stored its value
C40_Witness ==
    /\ calls.n = 3
    /\ config.start_date = 1
    /\ calls.stream = IncStream
    /\ calls.key = "updated_at"
    /\ calls.value = 0
    /\ state.bookmarks[<<IncStream, "updated_at">>] = 1
    /\ state.bookmarks[<<"stream_2", "other">>] = 2
    /\ \A p \in DOMAIN state.bookmarks :
           p \notin {<<IncStream, "updated_at">>, <<"stream_2", "other">>} =>
               state.bookmarks[p] = None

\* a bookmark that was stored below start_date before stays below it when
\* smaller values are written
StoredBelowStartDate ==
    /\ calls.n > 0
    /\ calls.key = "updated_at"
    /\ state.bookmarks[<<calls.stream, "updated_at">>] < config.start_date
====
